---- MODULE Spec2Model ----
(***************************************************************************)
(* Model of the vix middleware core: the exactly-once continuation Next,   *)
(* the Hooks fan-out built by merge_hooks, and HttpPipeline::run with its  *)
(* recursive step() closure and its begin / end / error hooks.             *)
(*                                                                         *)
(* User code (middleware bodies, the final handler, hook callbacks) is the *)
(* environment: whenever it has control it may invoke its continuation,    *)
(* return, raise a failure, or catch a failure that reaches it.            *)
(***************************************************************************)
EXTENDS Integers, Sequences, FiniteSets, TLC

VARIABLES
    nxt,            \* Next under test: [fn, called_]
    x,              \* counter incremented by the callable wrapped in nxt
    calls,          \* history of the invocations made on nxt
    middlewares_,   \* HttpPipeline::middlewares_
    hooks_,         \* HttpPipeline::hooks_
    final_handler,  \* run's final_handler argument: TRUE when non-empty
    pc,             \* position of run: idle, begin, stepping, end, catch, error, done
    idx,            \* run's local idx
    stack,          \* call stack of user code below run's step() (top = last)
    hookQ,          \* user callbacks still to be invoked by the hook call in progress
    exc,            \* failure in flight (or caught by run's handler)
    errArg,         \* Error handed to hooks_.on_error
    outcome,        \* how run ended: none, returned, raised
    trace,          \* log of every invocation that happened in the run
    bucket,         \* the TokenBucket: [capacity_, refill_per_sec_, tokens_, last_ms_]
    now,            \* Clock::now_ms_steady()
    nticks,         \* number of times the clock was advanced
    nops,           \* number of calls made on the bucket
    last,           \* the last call made on the bucket, with the state it found
    ones,           \* try_consume(1) bookkeeping: [calls, only]
    mu_,            \* TokenBucket::mu_: the thread that holds it, 0 when free
    th,             \* per thread: the call on the bucket it is making
    consumed,       \* total amount taken out of the bucket by granted calls
    refilled,       \* total amount put into the bucket by refills
    ncalls,         \* number of calls the threads have started
    opt,            \* the RateLimitOptions captured by the rate_limit middleware
    st,             \* RateLimiterState: [mu (holder, 0 when free), buckets (key -> bucket, 0 when absent)]
    heap,           \* the TokenBucket objects constructed so far: [key, b]
    rq,             \* per thread: the request rate_limit is handling
    nreq,           \* number of requests the threads have started
    nrun,           \* per key: number of runs made one after the other
    lastRun,        \* the last of these runs and the response it produced
    services_,      \* Services: type -> the instance provided for it, 0 when none
    provided,       \* the provide calls made so far, in order: <<type, instance>>
    lastGet,        \* the last get<T>() call: what it asked for and what it got
    reqState,       \* the request's typed state: type -> value, 0 when none
    stored,         \* the set_state / emplace_state calls of the run, in order: <<type, value>>
    sent,           \* what the last send_error wrote to the response
    nctx,           \* number of Context calls made by the middleware of the run
    errIn,          \* the Error handed to normalize
    errOut,         \* what normalize returned for it: [done, e]
    runsDone,       \* number of runs of the pipeline that are over
    rf,             \* refill_locked_ tried alone: [b0, pre, at, b, count]
    recovery_,      \* the recovery() middleware of the pipeline: [id (0 when none), opt]
    gd,             \* a guard middleware tried alone: [guard, opt, req, done, out]
    cr,             \* per concurrent call of run: its locals, its Context and its log
    running_,       \* PeriodicTask: std::atomic<bool> running_
    stop_flag_,     \* PeriodicTask: std::atomic<bool> stop_flag_
    thread_,        \* PeriodicTask: the worker std::thread thread_ owns, 0 when not joinable
    workers,        \* the worker threads launched so far: where each is in run_loop_
    caller,         \* per calling thread: the start() / stop() call it is in
    pstat,          \* what happened to the task: calls, posts, std::terminate, stops
    rw,             \* retry_after_ms followed by the wait it answered: [b, need, at, w, stage, ok]
    sh,             \* two rate_limit middleware: [opts, svc, buckets, through, runs]
    ss,             \* session middleware and its store: [opt, map_, calls, last]
    ck,             \* set_cookie_dev middleware: [cfg, cap, calls, last]
    hc              \* http_cache and its Cache: [opt, has_cache, atTtl, store, clock, calls, last, memo]

nextVars == <<nxt, x, calls>>
pipeVars == <<middlewares_, hooks_>>
runVars  == <<final_handler, pc, idx, stack, hookQ, exc, errArg, outcome, trace>>
bucketVars == <<bucket, now, nticks, nops, last, ones>>
concVars == <<mu_, th, consumed, refilled, ncalls>>
limVars  == <<opt, st, heap, rq, nreq, nrun, lastRun>>
svcVars  == <<services_, provided, lastGet>>
ctxVars  == <<reqState, stored, sent, nctx>>
normVars == <<errIn, errOut>>
runsVars == <<runsDone>>
refVars  == <<rf>>
recVars  == <<recovery_>>
guardVars == <<gd>>
crVars   == <<cr>>
periodicVars == <<running_, stop_flag_, thread_, workers, caller, pstat>>
retryVars == <<rw>>
sharedVars == <<sh>>
cacheVars == <<hc>>
sessionVars == <<ss>>
cookieVars == <<ck>>
later6   == <<periodicVars, retryVars, sharedVars, cacheVars, sessionVars, cookieVars>>
later5   == <<crVars, later6>>
later4   == <<guardVars, later5>>
later3   == <<recVars, later4>>
later2   == <<refVars, later3>>
laterVars == <<normVars, runsVars, later2>>
coreVars == <<svcVars, ctxVars, laterVars>>
tbVars   == <<bucketVars, concVars, limVars, coreVars>>
\* everything but the Services
notSvc   == <<nxt, x, calls, middlewares_, hooks_, final_handler, pc, idx,
              stack, hookQ, exc, errArg, outcome, trace, bucketVars, concVars, limVars,
              ctxVars, laterVars>>
\* everything but what normalize is tried on
notNorm  == <<nxt, x, calls, middlewares_, hooks_, final_handler, pc, idx,
              stack, hookQ, exc, errArg, outcome, trace, bucketVars, concVars, limVars,
              svcVars, ctxVars, runsVars, later2>>
\* everything but the run in progress and the count of the runs made
notRuns  == <<nxt, x, calls, middlewares_, hooks_, bucketVars, concVars, limVars,
              svcVars, ctxVars, normVars, later2>>
\* everything but the bucket refill_locked_ is tried on
notRef   == <<nxt, x, calls, middlewares_, hooks_, final_handler, pc, idx,
              stack, hookQ, exc, errArg, outcome, trace, bucketVars, concVars, limVars,
              svcVars, ctxVars, normVars, runsVars, later3>>
\* everything but the middleware list and the recovery() in it
notRec   == <<nxt, x, calls, hooks_, final_handler, pc, idx,
              stack, hookQ, exc, errArg, outcome, trace, bucketVars, concVars, limVars,
              svcVars, ctxVars, normVars, runsVars, refVars, later4>>
\* everything but the guard middleware tried alone
notGuard == <<nxt, x, calls, middlewares_, hooks_, final_handler, pc, idx,
              stack, hookQ, exc, errArg, outcome, trace, bucketVars, concVars, limVars,
              svcVars, ctxVars, normVars, runsVars, refVars, recVars, later5>>
\* everything but the concurrent calls of run
notCr    == <<nxt, x, calls, middlewares_, hooks_, final_handler, pc, idx,
              stack, hookQ, exc, errArg, outcome, trace, bucketVars, concVars, limVars,
              svcVars, ctxVars, normVars, runsVars, refVars, recVars, guardVars, later6>>
\* everything the sections up to the concurrent calls of run are about
oldVars  == <<nxt, x, calls, middlewares_, hooks_, final_handler, pc, idx,
              stack, hookQ, exc, errArg, outcome, trace, bucketVars, concVars, limVars,
              svcVars, ctxVars, normVars, runsVars, refVars, recVars, guardVars, crVars>>
\* everything but the PeriodicTask
notPeriodic == <<oldVars, retryVars, sharedVars, cacheVars, sessionVars, cookieVars>>
\* everything but the bucket whose retry_after_ms answer is waited for
notRetry == <<oldVars, periodicVars, sharedVars, cacheVars, sessionVars, cookieVars>>
\* everything but the two rate_limit middleware
notShared == <<oldVars, periodicVars, retryVars, cacheVars, sessionVars, cookieVars>>
\* everything but http_cache and its Cache
\* everything but the session middleware and its store
notSession == <<oldVars, periodicVars, retryVars, sharedVars, cacheVars, cookieVars>>
\* everything but the set_cookie_dev middleware
notCookie == <<oldVars, periodicVars, retryVars, sharedVars, cacheVars, sessionVars>>
notCache == <<oldVars, periodicVars, retryVars, sharedVars, sessionVars, cookieVars>>
vars     == <<nxt, x, calls, middlewares_, hooks_, final_handler, pc, idx,
              stack, hookQ, exc, errArg, outcome, trace, tbVars>>

(***************************************************************************)
(* Bounds                                                                  *)
(***************************************************************************)
MaxCalls  == 5     \* invocations made on the Next under test
MaxMw     == 2     \* middleware registered on the pipeline
MaxHooks  == 2     \* Hooks values given to merge_hooks
MaxInvoke == 2     \* times one middleware invokes the continuation it was given
MaxTicks  == 3     \* advances of the steady clock
MaxOps    == 3     \* calls made on one TokenBucket
MaxThreads == 2    \* threads calling one TokenBucket
MaxConcCalls == 2  \* calls the threads start in all
MaxConcTicks == 1  \* advances of the clock while the threads run
MaxReqThreads == 2 \* threads running requests through rate_limit
MaxReqs == 2       \* requests these threads start in all
MaxRuns == 4       \* runs made one after the other
MaxLimTicks == 1   \* advances of the clock between the requests
MaxProvides == 3   \* provide calls made on one Services
MaxCtxCalls == 2   \* set_state / emplace_state calls made by the middleware of one run
MaxSends == 1      \* send_error calls made by the middleware of one run
MaxReruns == 1     \* runs made on the pipeline after its first one
MaxRefills == 2    \* refill_locked_ calls made one after the other on one bucket
MaxPtCalls == 4    \* start() / stop() calls made on one PeriodicTask
MaxPosts == 2      \* jobs the workers of one PeriodicTask post
MaxShRuns == 4     \* requests handled by the two rate_limit middleware in all
MaxHcCalls == 2    \* requests handled by one http_cache middleware
MaxHcTicks == 3    \* advances of the clock between these requests
HcTtl == 2         \* CachePolicy::ttl_ms of the Cache, in clock advances
MaxSsCalls == 3    \* requests handled by one session middleware
MaxCkCalls == 2    \* requests handled by one set_cookie_dev middleware

Msgs == {"kaboom", "boom"} \* what() of the std::exception failures raised by user code

(***************************************************************************)
(* Next                                                                    *)
(***************************************************************************)
\* Next(NextFn fn): fn_ holds the callable, called_ starts false
NewNext(hasFn) == [fn |-> hasFn, called_ |-> FALSE]

\* try_call that forgets to latch called_
try_call_nolatch(nx) == [nx |-> nx, ret |-> TRUE, fire |-> nx.fn]

\* bool Next::try_call(): the new object, the value returned, and whether fn_ ran
try_call(nx) ==
    IF nx.called_
    THEN [nx |-> nx, ret |-> FALSE, fire |-> FALSE]
    ELSE [nx |-> [nx EXCEPT !.called_ = TRUE], ret |-> TRUE, fire |-> nx.fn]

\* bool Next::called() const
called(nx) == nx.called_

\* operator() that calls fn_ directly instead of going through try_call
call_op_direct(nx) == [nx |-> nx, fire |-> nx.fn]

\* void Next::operator()(): (void)try_call()
call_op(nx) == [nx |-> try_call(nx).nx, fire |-> try_call(nx).fire]

(***************************************************************************)
(* Error / normalize                                                       *)
(***************************************************************************)
\* Error's default member initialisers
DefaultError ==
    [status |-> 500, code |-> "internal_server_error",
     message |-> "Internal Server Error", details |-> {}]

\* clamp that takes 100 for out of range
clamp_http_status_excl(status) ==
    IF status <= 100 THEN 500
    ELSE IF status > 599 THEN 500
    ELSE status

clamp_http_status(status) ==
    IF status < 100 THEN 500
    ELSE IF status > 599 THEN 500
    ELSE status

\* normalize that leaves an empty code empty
normalize_nocode(e) ==
    [e EXCEPT !.status  = clamp_http_status(e.status),
              !.message = IF e.message = "" THEN "Error" ELSE e.message]

normalize(e) ==
    [e EXCEPT !.status  = clamp_http_status(e.status),
              !.code    = IF e.code = "" THEN "error" ELSE e.code,
              !.message = IF e.message = "" THEN "Error" ELSE e.message]

(***************************************************************************)
(* Hooks / merge_hooks                                                     *)
(* A callback is absent ("none"), a user callback ("user", installed in    *)
(* slot `slot` of the Hooks value `id`), or one of the three lambdas of    *)
(* merge_hooks, which captures the list it was given.                      *)
(***************************************************************************)
Slots == {"on_begin", "on_end", "on_error"}

NoCb == [kind |-> "none", slot |-> "", id |-> 0, list |-> <<>>]
UserCb(slot, id) == [kind |-> "user", slot |-> slot, id |-> id, list |-> <<>>]

\* explicit operator bool of std::function
Present(cb) == cb.kind # "none"

\* struct Hooks: default-constructed, and with user callbacks installed
EmptyHooks == [on_begin |-> NoCb, on_end |-> NoCb, on_error |-> NoCb]
UserHooks(id, b, e, r) ==
    [on_begin |-> IF b THEN UserCb("on_begin", id) ELSE NoCb,
     on_end   |-> IF e THEN UserCb("on_end", id) ELSE NoCb,
     on_error |-> IF r THEN UserCb("on_error", id) ELSE NoCb]

\* Hooks merge_hooks(std::vector<Hooks> list)
merge_hooks(list) ==
    [on_begin |-> [kind |-> "merged_begin", slot |-> "", id |-> 0, list |-> list],
     on_end   |-> [kind |-> "merged_end",   slot |-> "", id |-> 0, list |-> list],
     on_error |-> [kind |-> "merged_error", slot |-> "", id |-> 0, list |-> list]]

\* teardown loop that walks the list front to back
Backward_asForward(list) == [i \in 1..Len(list) |-> i]

\* Order in which the loops of the merged lambdas visit the list
Forward(list) == [i \in 1..Len(list) |-> i]
Backward(list) == [i \in 1..Len(list) |-> Len(list) + 1 - i]

\* The user callbacks that calling cb invokes, in order, as long as none raises
RECURSIVE Calls(_)
RECURSIVE CallsOver(_, _, _, _)
CallsOver(list, order, slot, k) ==
    IF k > Len(order) THEN <<>>
    ELSE LET h == list[order[k]] IN
         (IF Present(h[slot]) THEN Calls(h[slot]) ELSE <<>>)
             \o CallsOver(list, order, slot, k + 1)
Calls(cb) ==
    CASE cb.kind = "user"         -> <<cb>>
      [] cb.kind = "merged_begin" -> CallsOver(cb.list, Forward(cb.list), "on_begin", 1)
      [] cb.kind = "merged_end"   -> CallsOver(cb.list, Backward(cb.list), "on_end", 1)
      [] cb.kind = "merged_error" -> CallsOver(cb.list, Backward(cb.list), "on_error", 1)
      [] OTHER                    -> <<>>

(***************************************************************************)
(* Failures raised by user code                                            *)
(***************************************************************************)
NoExc == [kind |-> "none", what |-> "", by |-> <<"none", 0>>]
\* a std::exception with what() = w, raised by `by`
StdExc(w, by) == [kind |-> "std", what |-> w, by |-> by]
\* a failure that is no std::exception (it has no message)
OtherExc(by) == [kind |-> "other", what |-> "", by |-> by]
Raisable(by) == {StdExc(w, by) : w \in Msgs} \cup {OtherExc(by)}

NoOutcome == [kind |-> "none", exc |-> NoExc]
Returned  == [kind |-> "returned", exc |-> NoExc]
Raised(e) == [kind |-> "raised", exc |-> e]

(***************************************************************************)
(* The Next test harness (tests/core/next_smoke_test.cpp)                  *)
(***************************************************************************)
NextIdle == nxt = NewNext(FALSE) /\ x = 0 /\ calls = <<>>

\* n(): the callable increments x
NextOp ==
    /\ Len(calls) < MaxCalls
    /\ LET r == call_op(nxt) IN
         /\ nxt' = r.nx
         /\ x' = IF r.fire THEN x + 1 ELSE x
         /\ calls' = Append(calls, [how |-> "op", ret |-> "void"])
    /\ UNCHANGED <<tbVars, pipeVars, runVars>>

\* const bool ran = n.try_call()
NextTryCall ==
    /\ Len(calls) < MaxCalls
    /\ LET r == try_call(nxt) IN
         /\ nxt' = r.nx
         /\ x' = IF r.fire THEN x + 1 ELSE x
         /\ calls' = Append(calls, [how |-> "try",
                                    ret |-> IF r.ret THEN "true" ELSE "false"])
    /\ UNCHANGED <<tbVars, pipeVars, runVars>>

(***************************************************************************)
(* HttpPipeline                                                            *)
(***************************************************************************)
RunIdle ==
    /\ final_handler = FALSE /\ pc = "idle" /\ idx = 0 /\ stack = <<>>
    /\ hookQ = <<>> /\ exc = NoExc /\ errArg = DefaultError
    /\ outcome = NoOutcome /\ trace = <<>>

n == Len(middlewares_)

\* Reading the trace
Count(ev) == Cardinality({i \in DOMAIN trace : trace[i] = ev})
Occurs(ev) == \E i \in DOMAIN trace : trace[i] = ev
\* the invocations of middleware / final handler, and everything user code
\* of the chain does
InvocationEvents == {"mw", "final"}
ChainEvents == {"mw", "final", "next", "ret", "throw", "catch", "unwind"}
Registered == 1..n

\* HttpPipeline &use(MiddlewareFn mw): the k-th registered middleware is named k
use ==
    /\ pc = "idle"
    /\ Len(middlewares_) < MaxMw
    /\ middlewares_' = Append(middlewares_, Len(middlewares_) + 1)
    /\ UNCHANGED <<tbVars, nextVars, hooks_, runVars>>

\* The Hooks values a caller builds: any of the three callbacks may be absent
PlainHooks(id) == {UserHooks(id, b, e, r) : b \in BOOLEAN, e \in BOOLEAN, r \in BOOLEAN}
\* the lists handed to merge_hooks: the k-th Hooks value is named k
HookLists ==
    UNION {[1..k -> BOOLEAN \X BOOLEAN \X BOOLEAN] : k \in 0..MaxHooks}
ListOf(f) == [i \in DOMAIN f |-> UserHooks(i, f[i][1], f[i][2], f[i][3])]
\* the hooks a and b of tests/core/hooks_merge_smoke_test.cpp (on_begin and
\* on_end), with or without an on_error
TestHooks(id) == {UserHooks(id, TRUE, TRUE, r) : r \in BOOLEAN}

\* HttpPipeline &set_hooks(Hooks h)
set_hooks(h) ==
    /\ pc = "idle"
    /\ hooks_' = h
    /\ UNCHANGED <<tbVars, nextVars, middlewares_, runVars>>

\* p.set_hooks(std::move(h))
SetPlainHooks == \E h \in PlainHooks(1) : set_hooks(h)
\* p.set_hooks(a)
SetTestHooks == \E h \in TestHooks(1) : set_hooks(h)
\* p.set_hooks(merge_hooks(a, b))
SetMergedHooks ==
    \E a \in TestHooks(1), b \in TestHooks(2) : set_hooks(merge_hooks(<<a, b>>))

\* tracing_hooks(), metrics_hooks(sink), debug_trace_hooks(sink): each installs
\* all three callbacks; they are the Hooks values named 3, 4 and 5
tracing_hooks == UserHooks(3, TRUE, TRUE, TRUE)
metrics_hooks == UserHooks(4, TRUE, TRUE, TRUE)
debug_trace_hooks == UserHooks(5, TRUE, TRUE, TRUE)

\* values of the environment variable VIX_ENV ("" stands for unset or empty)
EnvValues == {"", "dev", "DEV", "Development", "local", "Local", "prod", "devel"}
\* std::tolower applied to every character
ToLower(v) ==
    CASE v = "DEV"         -> "dev"
      [] v = "Development" -> "development"
      [] v = "Local"       -> "local"
      [] OTHER             -> v

\* static bool HttpPipeline::env_is_dev()
env_is_dev(v) ==
    IF v = "" THEN FALSE
    ELSE ToLower(v) \in {"dev", "development", "local"}

\* enable_dev_observability that merges the caller's hooks after the dev hooks
DevHooks_swapped(old, h) ==
    IF Present(old.on_begin) \/ Present(old.on_end) \/ Present(old.on_error)
    THEN merge_hooks(<<h, old>>)
    ELSE h

\* the hooks_ that enable_dev_observability installs over the hooks `old`
DevHooks(old, h) ==
    IF Present(old.on_begin) \/ Present(old.on_end) \/ Present(old.on_error)
    THEN merge_hooks(<<old, h>>)
    ELSE h

\* whether the dev hooks are already part of h
HasDev(h) == \E c \in {Calls(h.on_begin)[k] : k \in DOMAIN Calls(h.on_begin)} : c.id = 3

\* HttpPipeline &enable_dev_observability(sinks, only_if_dev_env), called once,
\* with VIX_ENV = v
enable_dev_observability(only_if_dev_env, v) ==
    /\ pc = "idle"
    /\ ~HasDev(hooks_)
    /\ hooks_' = IF only_if_dev_env /\ ~env_is_dev(v)
                 THEN hooks_
                 ELSE DevHooks(hooks_,
                               merge_hooks(<<tracing_hooks, metrics_hooks, debug_trace_hooks>>))
    /\ UNCHANGED <<tbVars, nextVars, middlewares_, runVars>>

MwFrame(i) == [kind |-> "mw", id |-> i, next |-> NewNext(TRUE), inv |-> 0]
FinalFrame == [kind |-> "final", id |-> 0, next |-> NewNext(FALSE), inv |-> 0]

\* step that walks the middleware list from its end
step_reversed(stk, i) ==
    IF i >= n
    THEN IF final_handler
         THEN [stack |-> Append(stk, FinalFrame), idx |-> i, ev |-> <<<<"final", 0>>>>]
         ELSE [stack |-> stk, idx |-> i, ev |-> <<>>]
    ELSE [stack |-> Append(stk, MwFrame(middlewares_[n - i])), idx |-> i + 1,
          ev |-> <<<<"mw", middlewares_[n - i]>>>>]

\* the step closure, called with the user frames stk below it: what it pushes,
\* the new idx, and what it invokes
step(stk, i) ==
    IF i >= n
    THEN IF final_handler
         THEN [stack |-> Append(stk, FinalFrame), idx |-> i, ev |-> <<<<"final", 0>>>>]
         ELSE [stack |-> stk, idx |-> i, ev |-> <<>>]
    ELSE [stack |-> Append(stk, MwFrame(middlewares_[i + 1])), idx |-> i + 1,
          ev |-> <<<<"mw", middlewares_[i + 1]>>>>]

\* The call of one of hooks_' callbacks: the engine-level event and the queue
\* of user callbacks it will run
FireName(slot) ==
    CASE slot = "on_begin" -> "hooks_.on_begin"
      [] slot = "on_end"   -> "hooks_.on_end"
      [] slot = "on_error" -> "hooks_.on_error"
FireEv(slot) == IF Present(hooks_[slot]) THEN <<<<FireName(slot), 0>>>> ELSE <<>>
FireQ(slot) == IF Present(hooks_[slot]) THEN Calls(hooks_[slot]) ELSE <<>>

\* run that forgets to call hooks_.on_begin
RunStart_nobegin(fh) ==
    /\ pc = "idle"
    /\ final_handler' = fh
    /\ idx' = 0
    /\ pc' = "begin"
    /\ hookQ' = <<>>
    /\ UNCHANGED <<tbVars, nextVars, pipeVars, stack, exc, errArg, outcome, trace>>

\* run whose idx outlives the call (a member instead of a local)
RunStart_keepidx(fh) ==
    /\ pc = "idle"
    /\ final_handler' = fh
    /\ pc' = "begin"
    /\ hookQ' = FireQ("on_begin")
    /\ trace' = trace \o FireEv("on_begin")
    /\ UNCHANGED <<tbVars, nextVars, pipeVars, idx, stack, exc, errArg, outcome>>

\* run(req, res, final_handler) up to and including the call of hooks_.on_begin
RunStart(fh) ==
    /\ pc = "idle"
    /\ final_handler' = fh
    /\ idx' = 0
    /\ pc' = "begin"
    /\ hookQ' = FireQ("on_begin")
    /\ trace' = trace \o FireEv("on_begin")
    /\ UNCHANGED <<tbVars, nextVars, pipeVars, stack, exc, errArg, outcome>>

Top == stack[Len(stack)]
Pop(stk) == SubSeq(stk, 1, Len(stk) - 1)

\* hooks_.on_begin returned: run calls step()
BeginStep ==
    /\ pc = "begin" /\ hookQ = <<>>
    /\ LET r == step(<<>>, idx) IN
         /\ stack' = r.stack
         /\ idx' = r.idx
         /\ trace' = trace \o r.ev
    /\ pc' = "stepping"
    /\ UNCHANGED <<tbVars, nextVars, pipeVars, final_handler, hookQ, exc, errArg, outcome>>

\* run that calls hooks_.on_begin inside its try block
HookThrow_begintry ==
    /\ hookQ # <<>>
    /\ \E e \in Raisable(<<Head(hookQ).slot, Head(hookQ).id>>) :
         /\ trace' = Append(trace, <<Head(hookQ).slot, Head(hookQ).id>>)
         /\ hookQ' = <<>>
         /\ CASE pc = "begin" -> /\ exc' = e /\ pc' = "catch"
                                 /\ UNCHANGED outcome
              [] pc = "end"   -> /\ exc' = e /\ pc' = "catch"
                                 /\ UNCHANGED outcome
              [] pc = "error" -> /\ outcome' = Raised(e) /\ pc' = "done"
                                 /\ UNCHANGED exc
              [] pc = "merged" -> /\ outcome' = Raised(e) /\ pc' = "done"
                                  /\ UNCHANGED exc
    /\ UNCHANGED <<tbVars, nextVars, pipeVars, final_handler, idx, stack, errArg>>

\* The user callback at the head of the hook call in progress runs and returns
HookReturn ==
    /\ hookQ # <<>>
    /\ trace' = Append(trace, <<Head(hookQ).slot, Head(hookQ).id>>)
    /\ hookQ' = Tail(hookQ)
    /\ UNCHANGED <<tbVars, nextVars, pipeVars, final_handler, pc, idx, stack, exc, errArg, outcome>>

\* ... or raises: the merged lambdas catch nothing, so the hook call is over.
\* on_begin is called outside run's try block, on_end inside it, on_error
\* inside a catch handler.
HookThrow ==
    /\ hookQ # <<>>
    /\ \E e \in Raisable(<<Head(hookQ).slot, Head(hookQ).id>>) :
         /\ trace' = Append(trace, <<Head(hookQ).slot, Head(hookQ).id>>)
         /\ hookQ' = <<>>
         /\ CASE pc = "begin" -> /\ outcome' = Raised(e) /\ pc' = "done"
                                 /\ UNCHANGED exc
              [] pc = "end"   -> /\ exc' = e /\ pc' = "catch"
                                 /\ UNCHANGED outcome
              [] pc = "error" -> /\ outcome' = Raised(e) /\ pc' = "done"
                                 /\ UNCHANGED exc
              [] pc = "merged" -> /\ outcome' = Raised(e) /\ pc' = "done"
                                  /\ UNCHANGED exc
    /\ UNCHANGED <<tbVars, nextVars, pipeVars, final_handler, idx, stack, errArg>>

InUserCode == pc = "stepping" /\ stack # <<>> /\ exc = NoExc

\* The running middleware invokes the continuation it was given, as next()
\* or as next.try_call(); fn_ is the lambda that calls step()
MwInvoke ==
    /\ InUserCode /\ Top.kind = "mw"
    /\ Top.inv < MaxInvoke
    /\ \E how \in {"op", "try"} :
         LET r   == IF how = "op" THEN call_op(Top.next)
                    ELSE [nx |-> try_call(Top.next).nx, fire |-> try_call(Top.next).fire]
             me  == [Top EXCEPT !.next = r.nx, !.inv = @ + 1]
             stk == [stack EXCEPT ![Len(stack)] = me]
             s   == IF r.fire THEN step(stk, idx)
                    ELSE [stack |-> stk, idx |-> idx, ev |-> <<>>]
         IN  /\ stack' = s.stack
             /\ idx' = s.idx
             /\ trace' = Append(trace, <<"next", Top.id>>) \o s.ev
    /\ UNCHANGED <<tbVars, nextVars, pipeVars, final_handler, pc, hookQ, exc, errArg, outcome>>

\* engine that advances the chain itself when a middleware returns without next()
MwReturn_advance ==
    /\ InUserCode /\ Top.kind = "mw"
    /\ LET stk == Pop(stack)
           s   == IF called(Top.next)
                  THEN [stack |-> stk, idx |-> idx, ev |-> <<>>]
                  ELSE step(stk, idx)
       IN  /\ stack' = s.stack
           /\ idx' = s.idx
           /\ trace' = Append(trace, <<"ret", Top.id>>) \o s.ev
    /\ UNCHANGED <<tbVars, nextVars, pipeVars, final_handler, pc, hookQ, exc, errArg, outcome>>

\* The running middleware returns
MwReturn ==
    /\ InUserCode /\ Top.kind = "mw"
    /\ stack' = Pop(stack)
    /\ trace' = Append(trace, <<"ret", Top.id>>)
    /\ UNCHANGED <<tbVars, nextVars, pipeVars, final_handler, pc, idx, hookQ, exc, errArg, outcome>>

\* The running middleware raises a failure
MwThrow ==
    /\ InUserCode /\ Top.kind = "mw"
    /\ \E e \in Raisable(<<"mw", Top.id>>) : exc' = e
    /\ stack' = Pop(stack)
    /\ trace' = Append(trace, <<"throw", Top.id>>)
    /\ UNCHANGED <<tbVars, nextVars, pipeVars, final_handler, pc, idx, hookQ, errArg, outcome>>

\* final_handler(req, res) returns
FinalReturn ==
    /\ InUserCode /\ Top.kind = "final"
    /\ stack' = Pop(stack)
    /\ trace' = Append(trace, <<"ret", 0>>)
    /\ UNCHANGED <<tbVars, nextVars, pipeVars, final_handler, pc, idx, hookQ, exc, errArg, outcome>>

\* final_handler(req, res) raises
FinalThrow ==
    /\ InUserCode /\ Top.kind = "final"
    /\ \E e \in Raisable(<<"final", 0>>) : exc' = e
    /\ stack' = Pop(stack)
    /\ trace' = Append(trace, <<"throw", 0>>)
    /\ UNCHANGED <<tbVars, nextVars, pipeVars, final_handler, pc, idx, hookQ, errArg, outcome>>

\* A failure raised downstream reaches a middleware inside its next() call:
\* the middleware catches it (and goes on running) ...
MwCatch ==
    /\ pc = "stepping" /\ stack # <<>> /\ exc # NoExc
    /\ exc' = NoExc
    /\ trace' = Append(trace, <<"catch", Top.id>>)
    /\ UNCHANGED <<tbVars, nextVars, pipeVars, final_handler, pc, idx, stack, hookQ, errArg, outcome>>

\* ... or lets it pass
MwPropagate ==
    /\ pc = "stepping" /\ stack # <<>> /\ exc # NoExc
    /\ stack' = Pop(stack)
    /\ trace' = Append(trace, <<"unwind", Top.id>>)
    /\ UNCHANGED <<tbVars, nextVars, pipeVars, final_handler, pc, idx, hookQ, exc, errArg, outcome>>

\* run that calls hooks_.on_end only when the final handler was reached
StepDone_onlyAfterFinal ==
    /\ pc = "stepping" /\ stack = <<>> /\ exc = NoExc
    /\ pc' = "end"
    /\ hookQ' = IF Occurs(<<"final", 0>>) THEN FireQ("on_end") ELSE <<>>
    /\ trace' = trace \o (IF Occurs(<<"final", 0>>) THEN FireEv("on_end") ELSE <<>>)
    /\ UNCHANGED <<tbVars, nextVars, pipeVars, final_handler, idx, stack, exc, errArg, outcome>>

\* step() returned to run: if (hooks_.on_end) hooks_.on_end(ctx)
StepDone ==
    /\ pc = "stepping" /\ stack = <<>> /\ exc = NoExc
    /\ pc' = "end"
    /\ hookQ' = FireQ("on_end")
    /\ trace' = trace \o FireEv("on_end")
    /\ UNCHANGED <<tbVars, nextVars, pipeVars, final_handler, idx, stack, exc, errArg, outcome>>

\* hooks_.on_end returned (or was absent): run returns
RunReturn ==
    /\ pc = "end" /\ hookQ = <<>>
    /\ outcome' = Returned
    /\ pc' = "done"
    /\ UNCHANGED <<tbVars, nextVars, pipeVars, final_handler, idx, stack, hookQ, exc, errArg, trace>>

\* catch handler that drops e.what()
UnhandledError_nowhat(e) ==
    [DefaultError EXCEPT
        !.status = 500,
        !.code = "unhandled_exception",
        !.message = "Unknown exception escaped middleware pipeline"]

\* The Error run builds in its catch handlers
UnhandledError(e) ==
    IF e.kind = "std"
    THEN [DefaultError EXCEPT
             !.status = 500,
             !.code = "unhandled_exception",
             !.message = "Unhandled exception escaped middleware pipeline",
             !.details = {<<"what", e.what>>}]
    ELSE [DefaultError EXCEPT
             !.status = 500,
             !.code = "unhandled_exception",
             !.message = "Unknown exception escaped middleware pipeline"]

\* catch (const std::exception &e) / catch (...): a failure left the try block
RunCatch ==
    /\ \/ pc = "stepping" /\ stack = <<>> /\ exc # NoExc
       \/ pc = "catch"
    /\ pc' = "error"
    /\ errArg' = IF Present(hooks_.on_error)
                 THEN normalize(UnhandledError(exc)) ELSE errArg
    /\ hookQ' = FireQ("on_error")
    /\ trace' = trace \o FireEv("on_error")
    /\ UNCHANGED <<tbVars, nextVars, pipeVars, final_handler, idx, stack, exc, outcome>>

\* throw; at the end of the catch handler
RunRethrow ==
    /\ pc = "error" /\ hookQ = <<>>
    /\ outcome' = Raised(exc)
    /\ pc' = "done"
    /\ UNCHANGED <<tbVars, nextVars, pipeVars, final_handler, idx, stack, hookQ, exc, errArg, trace>>

\* run is over and its caller has control again: ctx, step and the other
\* locals of the call are gone (idx keeps the value the run left in it, which
\* nothing reads), the pipeline is as the run left it and may be run again
RunAgain ==
    /\ pc = "done"
    /\ runsDone < MaxReruns
    /\ runsDone' = runsDone + 1
    /\ pc' = "idle"
    /\ final_handler' = FALSE
    /\ stack' = <<>> /\ hookQ' = <<>>
    /\ exc' = NoExc /\ errArg' = DefaultError
    /\ outcome' = NoOutcome
    /\ trace' = <<>>
    /\ UNCHANGED <<notRuns, idx>>

(***************************************************************************)
(* The merge_hooks harness: a merged callback is called directly           *)
(***************************************************************************)
\* merged.on_begin(ctx) / merged.on_end(ctx) / merged.on_error(ctx, err)
MergeCall(slot) ==
    /\ pc = "idle"
    /\ pc' = "merged"
    /\ hookQ' = FireQ(slot)
    /\ trace' = trace \o FireEv(slot)
    /\ UNCHANGED <<tbVars, nextVars, pipeVars, final_handler, idx, stack, exc, errArg, outcome>>

\* the merged callback returns to its caller
MergeReturn ==
    /\ pc = "merged" /\ hookQ = <<>>
    /\ outcome' = Returned
    /\ pc' = "done"
    /\ UNCHANGED <<tbVars, nextVars, pipeVars, final_handler, idx, stack, hookQ, exc, errArg, trace>>

(***************************************************************************)
(* TokenBucket                                                             *)
(* Token amounts are counted in thousandths of a token, times in           *)
(* milliseconds and rates in whole tokens per second, so that the refill   *)
(* dt_sec * refill_per_sec_ is exactly dt_ms * refill_per_sec_ thousandths.*)
(***************************************************************************)
One == 1000              \* one token
FallbackRetryMs == 1000  \* what retry_after_ms answers for a bucket that never refills

Max(a, b) == IF a >= b THEN a ELSE b
Min(a, b) == IF a <= b THEN a ELSE b

\* TokenBucket(): capacity 0, refill 0
DefaultBucket ==
    [capacity_ |-> 0, refill_per_sec_ |-> 0, tokens_ |-> 0, last_ms_ |-> 0]

\* TokenBucket(double capacity, double refill_per_sec), constructed at time t
NewBucket(capacity, refill_per_sec, t) ==
    [capacity_ |-> Max(0, capacity),
     refill_per_sec_ |-> Max(0, refill_per_sec),
     tokens_ |-> Max(0, capacity),
     last_ms_ |-> t]

\* refill that forgets to clamp to the capacity
refill_noclamp(b, t) ==
    LET dt_ms == t - b.last_ms_ IN
    IF dt_ms <= 0 THEN b
    ELSE [b EXCEPT !.last_ms_ = t,
                   !.tokens_ = b.tokens_ + dt_ms * b.refill_per_sec_]

\* refill that leaves last_ms_ where it was
refill_keepstamp(b, t) ==
    LET dt_ms == t - b.last_ms_ IN
    IF dt_ms <= 0 THEN b
    ELSE [b EXCEPT !.tokens_ = Min(b.capacity_, b.tokens_ + dt_ms * b.refill_per_sec_)]

\* void refill_locked_(), with Clock::now_ms_steady() = t
refill_locked_(b, t) ==
    LET dt_ms == t - b.last_ms_ IN
    IF dt_ms <= 0 THEN b
    ELSE [b EXCEPT !.last_ms_ = t,
                   !.tokens_ = Min(b.capacity_, b.tokens_ + dt_ms * b.refill_per_sec_)]

\* try_consume that asks for more than n tokens to be there
try_consume_strict(b, amount, t) ==
    IF amount <= 0 THEN [b |-> b, ret |-> TRUE]
    ELSE LET r == refill_locked_(b, t) IN
         IF r.tokens_ > amount
         THEN [b |-> [r EXCEPT !.tokens_ = @ - amount], ret |-> TRUE]
         ELSE [b |-> r, ret |-> FALSE]

\* try_consume that does not refill first
try_consume_norefill(b, amount, t) ==
    IF amount <= 0 THEN [b |-> b, ret |-> TRUE]
    ELSE IF b.tokens_ >= amount
         THEN [b |-> [b EXCEPT !.tokens_ = @ - amount], ret |-> TRUE]
         ELSE [b |-> b, ret |-> FALSE]

\* try_consume that refills before looking at n
try_consume_refillfirst(b, amount, t) ==
    LET r == refill_locked_(b, t) IN
    IF amount <= 0 THEN [b |-> r, ret |-> TRUE]
    ELSE IF r.tokens_ >= amount
         THEN [b |-> [r EXCEPT !.tokens_ = @ - amount], ret |-> TRUE]
         ELSE [b |-> r, ret |-> FALSE]

\* bool try_consume(double n) at time t (amount is n): the new bucket and the
\* value returned
try_consume(b, amount, t) ==
    IF amount <= 0 THEN [b |-> b, ret |-> TRUE]
    ELSE LET r == refill_locked_(b, t) IN
         IF r.tokens_ >= amount
         THEN [b |-> [r EXCEPT !.tokens_ = @ - amount], ret |-> TRUE]
         ELSE [b |-> r, ret |-> FALSE]

\* std::int64_t retry_after_ms(double need) at time t. seconds * 1000.0 is
\* missing / refill_per_sec_ in milliseconds, and the cast to int64 drops its
\* fraction.
wait_ms(r, need) ==
    IF r.refill_per_sec_ <= 0 THEN FallbackRetryMs
    ELSE IF r.tokens_ >= need THEN 0
    ELSE Max(1, (need - r.tokens_) \div r.refill_per_sec_)
retry_after_ms(b, need, t) ==
    LET r == refill_locked_(b, t) IN [b |-> r, ret |-> wait_ms(r, need)]

\* double tokens() const
tokens(b) == b.tokens_

\* arguments given to the constructor and to the calls
Capacities == {0 - One, 0, One, 2 * One, 2 * One + 500}
Rates      == {0 - 1, 0, 1, 3}
Amounts    == {0 - One, 0, 500, One, 2 * One}
Needs      == {One, 2 * One}
Durations  == {1, 250, 1000}

NoCall == [op |-> "none", arg |-> 0, ok |-> FALSE, ms |-> 0, pre |-> DefaultBucket, at |-> 0]

BucketIdle ==
    /\ bucket = DefaultBucket /\ now = 0 /\ nticks = 0 /\ nops = 0
    /\ last = NoCall /\ ones = [calls |-> 0, only |-> TRUE]

\* the steady clock advances
Tick ==
    /\ nticks < MaxTicks
    /\ \E d \in Durations : now' = now + d
    /\ nticks' = nticks + 1
    /\ UNCHANGED <<coreVars, nextVars, pipeVars, runVars, bucket, nops, last, ones, concVars, limVars>>

\* b.try_consume(n)
TryConsume ==
    /\ nops < MaxOps
    /\ \E amt \in Amounts :
         LET r == try_consume(bucket, amt, now) IN
         /\ bucket' = r.b
         /\ last' = [op |-> "try_consume", arg |-> amt, ok |-> r.ret, ms |-> 0,
                     pre |-> bucket, at |-> now]
         /\ ones' = IF amt = One THEN [ones EXCEPT !.calls = @ + 1]
                    ELSE IF amt > 0 THEN [ones EXCEPT !.only = FALSE]
                    ELSE ones
    /\ nops' = nops + 1
    /\ UNCHANGED <<coreVars, nextVars, pipeVars, runVars, now, nticks, concVars, limVars>>

\* b.retry_after_ms(need)
RetryAfterMs ==
    /\ nops < MaxOps
    /\ \E need \in Needs :
         LET r == retry_after_ms(bucket, need, now) IN
         /\ bucket' = r.b
         /\ last' = [op |-> "retry_after_ms", arg |-> need, ok |-> FALSE, ms |-> r.ret,
                     pre |-> bucket, at |-> now]
    /\ nops' = nops + 1
    /\ UNCHANGED <<coreVars, nextVars, pipeVars, runVars, now, nticks, ones, concVars, limVars>>

(***************************************************************************)
(* TokenBucket called by several threads                                   *)
(* Every call is split at the points where another thread can run: taking  *)
(* mu_, refill_locked_(), the test of tokens_, the deduction, releasing     *)
(* mu_.                                                                    *)
(***************************************************************************)
Threads == 1..MaxThreads

NoThreadCall == [pc |-> "idle", op |-> "none", arg |-> 0, ok |-> FALSE, ms |-> 0,
                 pre |-> DefaultBucket, at |-> 0]

ConcIdle ==
    /\ mu_ = 0 /\ th = [t \in Threads |-> NoThreadCall]
    /\ consumed = 0 /\ refilled = 0 /\ ncalls = 0

\* arguments of the concurrent calls
ConcCapacities == {One, 2 * One}
ConcRates      == {0, 2}
ConcAmounts    == {0, One, 2 * One}
ConcNeeds      == {One}
ConcDurations  == {500}

\* a mutex that lets everybody in
CanLock_always == TRUE

\* std::lock_guard<std::mutex> lock(mu_) returns only when mu_ is free
CanLock == mu_ = 0

InCall(t) == th[t].pc \notin {"idle", "done"}
\* the thread is between taking and releasing mu_
Locked(t) == th[t].pc \in {"refill", "check", "deduct", "estimate", "unlock"}

\* thread t calls b.try_consume(n); n <= 0 returns true without locking
ConcTryConsume(t) ==
    /\ th[t].pc = "idle" /\ ncalls < MaxConcCalls
    /\ \E amt \in ConcAmounts :
         th' = [th EXCEPT ![t] =
                  [pc |-> IF amt <= 0 THEN "done" ELSE "lock",
                   op |-> "try_consume", arg |-> amt, ok |-> amt <= 0, ms |-> 0,
                   pre |-> bucket, at |-> now]]
    /\ ncalls' = ncalls + 1
    /\ UNCHANGED <<coreVars, nextVars, pipeVars, runVars, bucketVars, mu_, consumed, refilled, limVars>>

\* thread t calls b.retry_after_ms(need)
ConcRetryAfterMs(t) ==
    /\ th[t].pc = "idle" /\ ncalls < MaxConcCalls
    /\ \E need \in ConcNeeds :
         th' = [th EXCEPT ![t] =
                  [pc |-> "lock", op |-> "retry_after_ms", arg |-> need,
                   ok |-> FALSE, ms |-> 0, pre |-> bucket, at |-> now]]
    /\ ncalls' = ncalls + 1
    /\ UNCHANGED <<coreVars, nextVars, pipeVars, runVars, bucketVars, mu_, consumed, refilled, limVars>>

\* std::lock_guard<std::mutex> lock(mu_)
Lock(t) ==
    /\ th[t].pc = "lock" /\ CanLock
    /\ mu_' = t
    /\ th' = [th EXCEPT ![t].pc = "refill", ![t].pre = bucket]
    /\ UNCHANGED <<coreVars, nextVars, pipeVars, runVars, bucketVars, consumed, refilled, ncalls, limVars>>

\* refill_locked_()
Refill(t) ==
    /\ th[t].pc = "refill"
    /\ bucket' = refill_locked_(bucket, now)
    /\ refilled' = refilled + (bucket'.tokens_ - bucket.tokens_)
    /\ th' = [th EXCEPT ![t].at = now,
                        ![t].pc = IF th[t].op = "try_consume" THEN "check" ELSE "estimate"]
    /\ UNCHANGED <<coreVars, nextVars, pipeVars, runVars, now, nticks, nops, last, ones,
                   mu_, consumed, ncalls, limVars>>

\* if (tokens_ >= n)
Check(t) ==
    /\ th[t].pc = "check"
    /\ th' = [th EXCEPT ![t].pc = IF bucket.tokens_ >= th[t].arg THEN "deduct" ELSE "unlock",
                        ![t].ok = FALSE]
    /\ UNCHANGED <<coreVars, nextVars, pipeVars, runVars, bucketVars, mu_, consumed, refilled, ncalls, limVars>>

\* tokens_ -= n; return true;
Deduct(t) ==
    /\ th[t].pc = "deduct"
    /\ bucket' = [bucket EXCEPT !.tokens_ = @ - th[t].arg]
    /\ consumed' = consumed + th[t].arg
    /\ th' = [th EXCEPT ![t].pc = "unlock", ![t].ok = TRUE]
    /\ UNCHANGED <<coreVars, nextVars, pipeVars, runVars, now, nticks, nops, last, ones,
                   mu_, refilled, ncalls, limVars>>

\* the rest of retry_after_ms, after the refill
Estimate(t) ==
    /\ th[t].pc = "estimate"
    /\ th' = [th EXCEPT ![t].pc = "unlock", ![t].ms = wait_ms(bucket, th[t].arg)]
    /\ UNCHANGED <<coreVars, nextVars, pipeVars, runVars, bucketVars, mu_, consumed, refilled, ncalls, limVars>>

\* the lock_guard goes out of scope
Unlock(t) ==
    /\ th[t].pc = "unlock"
    /\ mu_' = 0
    /\ th' = [th EXCEPT ![t].pc = "done"]
    /\ UNCHANGED <<coreVars, nextVars, pipeVars, runVars, bucketVars, consumed, refilled, ncalls, limVars>>

\* the caller has its answer and may call again
Return(t) ==
    /\ th[t].pc = "done"
    /\ th' = [th EXCEPT ![t] = NoThreadCall]
    /\ UNCHANGED <<coreVars, nextVars, pipeVars, runVars, bucketVars, mu_, consumed, refilled, ncalls, limVars>>

\* the steady clock advances while the threads run
ConcTick ==
    /\ nticks < MaxConcTicks
    /\ \E d \in ConcDurations : now' = now + d
    /\ nticks' = nticks + 1
    /\ UNCHANGED <<coreVars, nextVars, pipeVars, runVars, bucket, nops, last, ones, concVars, limVars>>

(***************************************************************************)
(* rate_limit                                                              *)
(* The RateLimiterState is the one provided through Services. A bucket of  *)
(* the map is named by its position in heap, the list of the TokenBucket   *)
(* objects constructed.                                                    *)
(***************************************************************************)
\* client keys (key_fn or default_key_from_req)
Keys == {"1.2.3.4", "anonymous"}
ReqThreads == 1..MaxReqThreads

LimCapacities == {0, One, 2 * One}
LimRates      == {0, 2}
LimDurations  == {1000}
\* struct RateLimitOptions
LimOpts == [capacity : LimCapacities, refill_per_sec : LimRates, add_headers : BOOLEAN]
DefaultOpt == [capacity |-> 60 * One, refill_per_sec |-> 1, add_headers |-> TRUE]

\* what a run left in the response
NoResponse == [status |-> 0, code |-> "", retry_after |-> 0 - 1, remaining |-> 0 - 1,
               next |-> FALSE, final |-> FALSE]
NoRequest == [pc |-> "idle", key |-> "", it |-> 0, ptr |-> 0, bucket_ptr |-> 0,
              ok |-> FALSE, ms |-> 0, res |-> NoResponse]
NoRun == [key |-> "", i |-> 0, res |-> NoResponse]

LimiterIdle ==
    /\ opt = DefaultOpt
    /\ st = [mu |-> 0, buckets |-> [k \in Keys |-> 0]]
    /\ heap = <<>>
    /\ rq = [t \in ReqThreads |-> NoRequest]
    /\ nreq = 0
    /\ nrun = [k \in Keys |-> 0]
    /\ lastRun = NoRun

\* std::make_unique<TokenBucket>(opt.capacity, opt.refill_per_sec) for key
make_bucket(hp, o, key, t) ==
    Append(hp, [key |-> key, b |-> NewBucket(o.capacity, o.refill_per_sec, t)])

\* st->buckets.emplace(key, std::move(ptr)).first: an existing entry stays
emplace(buckets, key, ptr) ==
    IF buckets[key] = 0 THEN [buckets EXCEPT ![key] = ptr] ELSE buckets

\* the rejection: Retry-After in whole seconds, rounded up, and the error body
rejected(o, key, ms) ==
    LET sec == (ms + 999) \div 1000
        e == normalize([status |-> 429, code |-> "rate_limited",
                        message |-> "Too many requests",
                        details |-> {<<"key", key>>}])
    IN [status |-> e.status, code |-> e.code, retry_after |-> sec,
        remaining |-> IF o.add_headers THEN 0 ELSE 0 - 1,
        next |-> FALSE, final |-> FALSE]

\* the request goes on: informational headers, then next(), which here reaches
\* the final handler of the test (w.ok().text("OK"))
admitted(o, b) ==
    LET nx == call_op(NewNext(TRUE)) IN
    [status |-> IF nx.fire THEN 200 ELSE 0, code |-> "", retry_after |-> 0 - 1,
     remaining |-> IF o.add_headers THEN tokens(b) \div One ELSE 0 - 1,
     next |-> called(nx.nx), final |-> nx.fire]

\* a mutex that lets everybody in
MapCanLock_always == TRUE

\* std::lock_guard<std::mutex> lock(st->mu) returns only when mu is free
MapCanLock == st.mu = 0

\* a request for key enters the middleware on thread t
ReqStart(t) ==
    /\ rq[t].pc = "idle" /\ nreq < MaxReqs
    /\ \E key \in Keys : rq' = [rq EXCEPT ![t] = [NoRequest EXCEPT !.pc = "lock", !.key = key]]
    /\ nreq' = nreq + 1
    /\ UNCHANGED <<coreVars, nextVars, pipeVars, runVars, bucketVars, concVars, opt, st, heap, nrun, lastRun>>

\* std::lock_guard<std::mutex> lock(st->mu)
ReqLock(t) ==
    /\ rq[t].pc = "lock" /\ MapCanLock
    /\ st' = [st EXCEPT !.mu = t]
    /\ rq' = [rq EXCEPT ![t].pc = "find"]
    /\ UNCHANGED <<coreVars, nextVars, pipeVars, runVars, bucketVars, concVars, opt, heap, nreq, nrun, lastRun>>

\* auto it = st->buckets.find(key)
ReqFind(t) ==
    /\ rq[t].pc = "find"
    /\ rq' = [rq EXCEPT ![t].it = st.buckets[rq[t].key],
                        ![t].pc = IF st.buckets[rq[t].key] = 0 THEN "make" ELSE "unlock"]
    /\ UNCHANGED <<coreVars, nextVars, pipeVars, runVars, bucketVars, concVars, opt, st, heap, nreq, nrun, lastRun>>

\* auto ptr = std::make_unique<TokenBucket>(...)
ReqMake(t) ==
    /\ rq[t].pc = "make"
    /\ heap' = make_bucket(heap, opt, rq[t].key, now)
    /\ rq' = [rq EXCEPT ![t].ptr = Len(heap'), ![t].pc = "emplace"]
    /\ UNCHANGED <<coreVars, nextVars, pipeVars, runVars, bucketVars, concVars, opt, st, nreq, nrun, lastRun>>

\* it = st->buckets.emplace(key, std::move(ptr)).first
ReqEmplace(t) ==
    /\ rq[t].pc = "emplace"
    /\ st' = [st EXCEPT !.buckets = emplace(@, rq[t].key, rq[t].ptr)]
    /\ rq' = [rq EXCEPT ![t].it = st'.buckets[rq[t].key], ![t].ptr = 0, ![t].pc = "unlock"]
    /\ UNCHANGED <<coreVars, nextVars, pipeVars, runVars, bucketVars, concVars, opt, heap, nreq, nrun, lastRun>>

\* bucket_ptr = it->second.get(); the lock_guard goes out of scope
ReqUnlock(t) ==
    /\ rq[t].pc = "unlock"
    /\ st' = [st EXCEPT !.mu = 0]
    /\ rq' = [rq EXCEPT ![t].bucket_ptr = rq[t].it, ![t].pc = "consume"]
    /\ UNCHANGED <<coreVars, nextVars, pipeVars, runVars, bucketVars, concVars, opt, heap, nreq, nrun, lastRun>>

\* const bool ok = bucket_ptr->try_consume(1.0)
ReqConsume(t) ==
    /\ rq[t].pc = "consume"
    /\ LET r == try_consume(heap[rq[t].bucket_ptr].b, One, now) IN
         /\ heap' = [heap EXCEPT ![rq[t].bucket_ptr].b = r.b]
         /\ rq' = [rq EXCEPT ![t].ok = r.ret, ![t].pc = IF r.ret THEN "next" ELSE "retry"]
    /\ UNCHANGED <<coreVars, nextVars, pipeVars, runVars, bucketVars, concVars, opt, st, nreq, nrun, lastRun>>

\* const auto ms = bucket_ptr->retry_after_ms(1.0)
ReqRetry(t) ==
    /\ rq[t].pc = "retry"
    /\ LET r == retry_after_ms(heap[rq[t].bucket_ptr].b, One, now) IN
         /\ heap' = [heap EXCEPT ![rq[t].bucket_ptr].b = r.b]
         /\ rq' = [rq EXCEPT ![t].ms = r.ret, ![t].pc = "reject"]
    /\ UNCHANGED <<coreVars, nextVars, pipeVars, runVars, bucketVars, concVars, opt, st, nreq, nrun, lastRun>>

\* headers, ctx.send_error(normalize(e)); return;
ReqReject(t) ==
    /\ rq[t].pc = "reject"
    /\ rq' = [rq EXCEPT ![t].res = rejected(opt, rq[t].key, rq[t].ms), ![t].pc = "done"]
    /\ UNCHANGED <<coreVars, nextVars, pipeVars, runVars, bucketVars, concVars, opt, st, heap, nreq, nrun, lastRun>>

\* headers, next();
ReqNext(t) ==
    /\ rq[t].pc = "next"
    /\ rq' = [rq EXCEPT ![t].res = admitted(opt, heap[rq[t].bucket_ptr].b), ![t].pc = "done"]
    /\ UNCHANGED <<coreVars, nextVars, pipeVars, runVars, bucketVars, concVars, opt, st, heap, nreq, nrun, lastRun>>

\* the run is over; the thread may take another request
ReqDone(t) ==
    /\ rq[t].pc = "done"
    /\ rq' = [rq EXCEPT ![t] = NoRequest]
    /\ UNCHANGED <<coreVars, nextVars, pipeVars, runVars, bucketVars, concVars, opt, st, heap, nreq, nrun, lastRun>>

\* the steady clock advances between and during the requests
LimTick ==
    /\ nticks < MaxLimTicks
    /\ \E d \in LimDurations : now' = now + d
    /\ nticks' = nticks + 1
    /\ UNCHANGED <<coreVars, nextVars, pipeVars, runVars, bucket, nops, last, ones, concVars, limVars>>

\* rate_limit that forgets to call the continuation
RateRun_nonext(key) ==
    /\ nrun[key] < MaxRuns
    /\ LET heap1 == IF st.buckets[key] = 0 THEN make_bucket(heap, opt, key, now) ELSE heap
           buckets1 == emplace(st.buckets, key, Len(heap1))
           id == buckets1[key]
           c == try_consume(heap1[id].b, One, now)
           r == retry_after_ms(c.b, One, now)
       IN /\ st' = [st EXCEPT !.buckets = buckets1]
          /\ heap' = [heap1 EXCEPT ![id].b = IF c.ret THEN c.b ELSE r.b]
          /\ lastRun' = [key |-> key, i |-> nrun[key] + 1,
                         res |-> IF c.ret THEN NoResponse ELSE rejected(opt, key, r.ret)]
    /\ nrun' = [nrun EXCEPT ![key] = @ + 1]
    /\ UNCHANGED <<coreVars, nextVars, pipeVars, runVars, bucketVars, concVars, opt, rq, nreq>>

\* p.run(req, w, final) on a pipeline whose only middleware is rate_limit(opt),
\* for a request with client key `key`, from beginning to end
RateRun(key) ==
    /\ nrun[key] < MaxRuns
    /\ LET heap1 == IF st.buckets[key] = 0 THEN make_bucket(heap, opt, key, now) ELSE heap
           buckets1 == emplace(st.buckets, key, Len(heap1))
           id == buckets1[key]
           c == try_consume(heap1[id].b, One, now)
           r == retry_after_ms(c.b, One, now)
       IN /\ st' = [st EXCEPT !.buckets = buckets1]
          /\ heap' = [heap1 EXCEPT ![id].b = IF c.ret THEN c.b ELSE r.b]
          /\ lastRun' = [key |-> key, i |-> nrun[key] + 1,
                         res |-> IF c.ret THEN admitted(opt, c.b)
                                 ELSE rejected(opt, key, r.ret)]
    /\ nrun' = [nrun EXCEPT ![key] = @ + 1]
    /\ UNCHANGED <<coreVars, nextVars, pipeVars, runVars, bucketVars, concVars, opt, rq, nreq>>

(***************************************************************************)
(* Services                                                                *)
(* A registry from type to one shared instance. Instances are named by     *)
(* numbers; 0 is the empty shared_ptr.                                     *)
(***************************************************************************)
SvcTypes  == {"RateLimiterState", "IRecoveryLogger"}
Instances == {1, 2}

NoGet == [type |-> "", ret |-> 0, seen |-> 0]

SvcIdle ==
    /\ services_ = [T \in SvcTypes |-> 0]
    /\ provided = <<>>
    /\ lastGet = NoGet

\* provide that keeps the instance registered first
provide_keepfirst(s, T, inst) == IF s[T] = 0 THEN [s EXCEPT ![T] = inst] ELSE s

\* services.provide<T>(instance): registers or replaces the instance of T
provide(s, T, inst) == [s EXCEPT ![T] = inst]

\* services.get<T>(): the registry afterwards and the shared_ptr returned
get(s, T) == [s |-> s, ret |-> s[T]]

\* services.has<T>()
has(s, T) == s[T] # 0

\* p.services().provide<T>(instance)
Provide ==
    /\ Len(provided) < MaxProvides
    /\ \E T \in SvcTypes, inst \in Instances :
         /\ services_' = provide(services_, T, inst)
         /\ provided' = Append(provided, <<T, inst>>)
    /\ UNCHANGED <<notSvc, lastGet>>

\* auto svc = ctx.services().get<T>()
Get ==
    \E T \in SvcTypes :
        /\ services_' = get(services_, T).s
        /\ lastGet' = [type |-> T, ret |-> get(services_, T).ret, seen |-> Len(provided)]
        /\ UNCHANGED <<notSvc, provided>>

(***************************************************************************)
(* Context                                                                 *)
(* One Context is built per run and handed to every middleware; the typed  *)
(* state lives in the Request, the Error sent in the Response.             *)
(***************************************************************************)
StateTypes  == {"FooState", "RequestId"}
StateValues == {42, 7}

\* nothing written by send_error yet
NoSent == [status |-> 0, json |-> [status |-> 0, code |-> "", message |-> "", details |-> {}],
           normalized |-> FALSE, by |-> 0, inv |-> 0]

CtxIdle ==
    /\ reqState = [T \in StateTypes |-> 0]
    /\ stored = <<>>
    /\ sent = NoSent
    /\ nctx = 0

\* Request: the typed state store
req_set_state(rs, T, v) == [rs EXCEPT ![T] = v]
req_emplace_state(rs, T, v) == [rs EXCEPT ![T] = v]
req_try_state(rs, T) == rs[T]
req_has_state_type(rs, T) == rs[T] # 0

\* a Context that keeps a value already stored
set_state_keep(rs, T, v) == IF rs[T] = 0 THEN req_set_state(rs, T, v) ELSE rs

\* Context::set_state<T>(value), emplace_state<T>(args...), try_state<T>(),
\* has_state<T>(): each forwards to the Request
set_state(rs, T, v) == req_set_state(rs, T, v)
emplace_state(rs, T, v) == req_emplace_state(rs, T, v)
try_state(rs, T) == req_try_state(rs, T)
has_state(rs, T) == req_has_state_type(rs, T)

\* Context::send_error(const Error &err): the status set on the response and
\* its JSON body; the details are left out of the body when empty
send_error(err) ==
    [status |-> err.status,
     json |-> [status |-> err.status, code |-> err.code, message |-> err.message,
               details |-> err.details]]

\* the Errors a middleware may build
SendErrors ==
    {[status |-> 401, code |-> "unauthorized", message |-> "Missing token", details |-> {}],
     [status |-> 999, code |-> "", message |-> "", details |-> {}],
     [status |-> 0, code |-> "teapot", message |-> "", details |-> {}]}

\* The running middleware calls ctx.set_state(T{v})
CtxSetState ==
    /\ InUserCode /\ Top.kind = "mw" /\ nctx < MaxCtxCalls
    /\ \E T \in StateTypes, v \in StateValues :
         /\ reqState' = set_state(reqState, T, v)
         /\ stored' = Append(stored, <<T, v>>)
    /\ nctx' = nctx + 1
    /\ UNCHANGED <<nextVars, pipeVars, final_handler, pc, idx, stack, hookQ, exc, errArg,
                   outcome, trace, bucketVars, concVars, limVars, svcVars, laterVars, sent>>

\* The running middleware calls ctx.emplace_state<T>(v)
CtxEmplaceState ==
    /\ InUserCode /\ Top.kind = "mw" /\ nctx < MaxCtxCalls
    /\ \E T \in StateTypes, v \in StateValues :
         /\ reqState' = emplace_state(reqState, T, v)
         /\ stored' = Append(stored, <<T, v>>)
    /\ nctx' = nctx + 1
    /\ UNCHANGED <<nextVars, pipeVars, final_handler, pc, idx, stack, hookQ, exc, errArg,
                   outcome, trace, bucketVars, concVars, limVars, svcVars, laterVars, sent>>

\* send_error that ends the chain for the caller
CtxSendError_stops ==
    /\ InUserCode /\ Top.kind = "mw" /\ nctx < MaxSends
    /\ \E e \in SendErrors, norm \in BOOLEAN :
         sent' = [status |-> send_error(IF norm THEN normalize(e) ELSE e).status,
                  json |-> send_error(IF norm THEN normalize(e) ELSE e).json,
                  normalized |-> norm, by |-> Top.id, inv |-> Top.inv]
    /\ stack' = [stack EXCEPT ![Len(stack)].next.called_ = TRUE]
    /\ nctx' = nctx + 1
    /\ UNCHANGED <<nextVars, pipeVars, final_handler, pc, idx, hookQ, exc, errArg,
                   outcome, trace, bucketVars, concVars, limVars, svcVars, laterVars, reqState, stored>>

\* The running middleware calls ctx.send_error(e), or
\* ctx.send_error(normalize(e)) as the middleware of this repository do
CtxSendError ==
    /\ InUserCode /\ Top.kind = "mw" /\ nctx < MaxSends
    /\ \E e \in SendErrors, norm \in BOOLEAN :
         sent' = [status |-> send_error(IF norm THEN normalize(e) ELSE e).status,
                  json |-> send_error(IF norm THEN normalize(e) ELSE e).json,
                  normalized |-> norm, by |-> Top.id, inv |-> Top.inv]
    /\ nctx' = nctx + 1
    /\ UNCHANGED <<nextVars, pipeVars, final_handler, pc, idx, stack, hookQ, exc, errArg,
                   outcome, trace, bucketVars, concVars, limVars, svcVars, laterVars, reqState, stored>>

(***************************************************************************)
(* recovery()                                                              *)
(* A middleware of the library, not user code: it calls next() inside a    *)
(* try block and turns a failure that reaches it into a 500 response. The  *)
(* IRecoveryLogger it looks up in the Services is user code, and may raise.*)
(***************************************************************************)
\* RecoveryOptions{}
DefaultRecoveryOptions ==
    [include_exception_message |-> FALSE, include_code_location |-> FALSE,
     code |-> "internal_server_error", message |-> "Internal Server Error"]
\* the options recovery() is built with
RecoveryOptionsTried ==
    {DefaultRecoveryOptions,
     [DefaultRecoveryOptions EXCEPT !.include_exception_message = TRUE,
                                    !.include_code_location = TRUE],
     [DefaultRecoveryOptions EXCEPT !.code = ""]}

NoRecovery == [id |-> 0, opt |-> DefaultRecoveryOptions]
RecIdle == recovery_ = NoRecovery

\* p.use(recovery(opt))
UseRecovery ==
    /\ pc = "idle"
    /\ Len(middlewares_) < MaxMw
    /\ recovery_.id = 0
    /\ middlewares_' = Append(middlewares_, Len(middlewares_) + 1)
    /\ \E o \in RecoveryOptionsTried :
         recovery_' = [id |-> Len(middlewares_) + 1, opt |-> o]
    /\ UNCHANGED notRec

\* p.services().provide<IRecoveryLogger>(logger)
ProvideLogger ==
    /\ pc = "idle"
    /\ provided = <<>>
    /\ services_' = provide(services_, "IRecoveryLogger", 1)
    /\ provided' = Append(provided, <<"IRecoveryLogger", 1>>)
    /\ UNCHANGED <<notSvc, lastGet>>

\* the frame on top is the recovery() lambda
IsRecovery == stack # <<>> /\ Top.kind = "mw" /\ Top.id = recovery_.id

\* the Error built in recovery's catch handlers for the failure e
RecoveryError(o, e) ==
    [status |-> 500, code |-> o.code, message |-> o.message,
     details |->
        (IF o.include_exception_message
         THEN {<<"exception", IF e.kind = "std" THEN e.what ELSE "unknown">>} ELSE {})
        \cup (IF o.include_code_location THEN {<<"location", "unavailable">>} ELSE {})]

\* user middleware: every middleware of the list but recovery()
UserInvoke == ~IsRecovery /\ MwInvoke
UserReturn == ~IsRecovery /\ MwReturn
UserThrow == ~IsRecovery /\ MwThrow
UserCatch == ~IsRecovery /\ MwCatch
UserPropagate == ~IsRecovery /\ MwPropagate

\* try { next(); }
RecNext == IsRecovery /\ Top.inv = 0 /\ MwInvoke
\* next() returned: the lambda is over
RecReturn == IsRecovery /\ Top.inv = 1 /\ MwReturn

\* recovery that writes the response and lets the failure go on
RecCatch_rethrow ==
    /\ pc = "stepping" /\ IsRecovery /\ exc # NoExc
    /\ sent' = [status |-> send_error(normalize(RecoveryError(recovery_.opt, exc))).status,
                json |-> send_error(normalize(RecoveryError(recovery_.opt, exc))).json,
                normalized |-> TRUE, by |-> Top.id, inv |-> Top.inv]
    /\ trace' = trace \o <<<<"catch", Top.id>>, <<"unwind", Top.id>>>>
    /\ stack' = Pop(stack)
    /\ UNCHANGED <<nextVars, pipeVars, final_handler, pc, idx, hookQ, exc, errArg, outcome,
                   bucketVars, concVars, limVars, svcVars, laterVars, reqState, stored, nctx>>

\* catch (const std::exception &e) / catch (...): the logger, when there is
\* one, is told and may itself raise; otherwise the Error is sent and the
\* lambda returns
RecCatch ==
    /\ pc = "stepping" /\ IsRecovery /\ exc # NoExc
    /\ \/ /\ get(services_, "IRecoveryLogger").ret # 0
          /\ \E e \in Raisable(<<"logger", Top.id>>) : exc' = e
          /\ trace' = trace \o <<<<"catch", Top.id>>, <<"throw", Top.id>>>>
          /\ UNCHANGED sent
       \/ /\ exc' = NoExc
          /\ sent' = [status |-> send_error(normalize(RecoveryError(recovery_.opt, exc))).status,
                      json |-> send_error(normalize(RecoveryError(recovery_.opt, exc))).json,
                      normalized |-> TRUE, by |-> Top.id, inv |-> Top.inv]
          /\ trace' = trace \o <<<<"catch", Top.id>>, <<"ret", Top.id>>>>
    /\ stack' = Pop(stack)
    /\ UNCHANGED <<nextVars, pipeVars, final_handler, pc, idx, hookQ, errArg, outcome,
                   bucketVars, concVars, limVars, svcVars, laterVars, reqState, stored, nctx>>

(***************************************************************************)
(* The guard middleware: ip_filter, csrf, body_limit, rate_limit           *)
(* Each is tried alone on one request: what it did with its continuation   *)
(* and what it wrote through send_error. Header values that the code       *)
(* scans are sequences of characters; callbacks given in the options are   *)
(* user code and may raise.                                                *)
(***************************************************************************)
\* what one call of a guard did: next() calls, send_error calls, failure
NoOut == [next |-> 0, sent |-> <<>>, raised |-> FALSE]
\* next()
CallNext(o) == [o EXCEPT !.next = @ + (IF call_op(NewNext(TRUE)).fire THEN 1 ELSE 0)]
\* ctx.send_error(normalize(std::move(e)))
SendError(o, e) == [o EXCEPT !.sent = Append(@, send_error(normalize(e)))]
\* a callback of the options raised: the failure leaves the middleware
Raise(o) == [o EXCEPT !.raised = TRUE]

\* s.find(c): index of the first c, 0 for npos
Find(str, c) ==
    IF \E i \in DOMAIN str : str[i] = c
    THEN CHOOSE i \in DOMAIN str : str[i] = c /\ \A j \in 1..(i - 1) : str[j] # c
    ELSE 0
Blank(c) == c \in {" ", "\t"}
RECURSIVE TrimFront(_)
TrimFront(str) == IF str # <<>> /\ Blank(Head(str)) THEN TrimFront(Tail(str)) ELSE str
RECURSIVE TrimBack(_)
TrimBack(str) ==
    IF str # <<>> /\ Blank(str[Len(str)]) THEN TrimBack(SubSeq(str, 1, Len(str) - 1)) ELSE str

\* std::string extract_client_ip(req, opt)
extract_client_ip(req, o) ==
    LET ip0 == req.forwarded
        comma == Find(ip0, ",")
        ip1 == IF comma # 0 THEN SubSeq(ip0, 1, comma - 1) ELSE ip0
        ip2 == TrimBack(TrimFront(ip1))
    IN  IF ip2 # <<>> THEN ip2
        ELSE IF ~o.use_remote_addr_fallback THEN <<>>
        ELSE req.real_ip

\* bool contains(const std::vector<std::string> &a, std::string_view v)
contains(a, v) == \E i \in DOMAIN a : a[i] = v

IpError(code, message, ip) ==
    [status |-> 403, code |-> code, message |-> message, details |-> {<<"ip", ip>>}]

\* ip_filter that goes on after rejecting a denied address
ip_filter_noreturn(o, req) ==
    LET ip == extract_client_ip(req, o) IN
    IF o.deny # <<>> /\ contains(o.deny, ip)
    THEN CallNext(SendError(NoOut, IpError("ip_denied", "Client IP is denied", ip)))
    ELSE IF o.allow # <<>> /\ ~contains(o.allow, ip)
    THEN SendError(NoOut, IpError("ip_not_allowed", "Client IP is not in allow list", ip))
    ELSE CallNext(NoOut)

\* the lambda returned by ip_filter(opt), called for req
ip_filter(o, req) ==
    LET ip == extract_client_ip(req, o) IN
    IF o.deny # <<>> /\ contains(o.deny, ip)
    THEN SendError(NoOut, IpError("ip_denied", "Client IP is denied", ip))
    ELSE IF o.allow # <<>> /\ ~contains(o.allow, ip)
    THEN SendError(NoOut, IpError("ip_not_allowed", "Client IP is not in allow list", ip))
    ELSE CallNext(NoOut)

\* ASCII lower case of the method names tried
Lower(m) ==
    CASE m \in {"GET", "get", "Get"} -> "get"
      [] m \in {"POST", "post"}      -> "post"
      [] m \in {"DELETE"}            -> "delete"
      [] OTHER                       -> m
\* bool iequals(a, b) / iequals_ascii(a, b)
iequals(a, b) == Lower(a) = Lower(b)

\* bool is_unsafe_method(m, protect_get)
is_unsafe_method(m, protect_get) ==
    IF protect_get /\ iequals(m, "GET") THEN TRUE
    ELSE iequals(m, "POST") \/ iequals(m, "PUT") \/ iequals(m, "PATCH")
         \/ iequals(m, "DELETE")

\* std::string extract_cookie(cookie_header, name): the header is taken as
\* already split at ';' and '=' into <<key, value>> pairs; the value of the
\* first pair named name, "" when there is none
RECURSIVE extract_cookie(_, _)
extract_cookie(cookie, name) ==
    IF cookie = <<>> THEN ""
    ELSE IF Head(cookie)[1] = name THEN Head(cookie)[2]
    ELSE extract_cookie(Tail(cookie), name)

CsrfError ==
    [status |-> 403, code |-> "csrf_failed", message |-> "CSRF token missing or invalid",
     details |-> {}]

\* the lambda returned by csrf(opt), called for req
csrf(o, req) ==
    IF ~is_unsafe_method(req.method, o.protect_get) THEN CallNext(NoOut)
    ELSE LET header_token == req.csrf_header
             cookie_token == extract_cookie(req.cookie, o.cookie_name)
         IN  IF header_token = "" \/ cookie_token = "" \/ header_token # cookie_token
             THEN SendError(NoOut, CsrfError)
             ELSE CallNext(NoOut)

\* static_cast<std::size_t>(-1), scaled down to 8 bits
SizeMax == 255
Digits == <<"0", "1", "2", "3", "4", "5", "6", "7", "8", "9">>
IsDigit(c) == \E i \in DOMAIN Digits : Digits[i] = c
DigitOf(c) == (CHOOSE i \in DOMAIN Digits : Digits[i] = c) - 1

\* std::size_t parse_content_length(v, ok): [ok, len]
RECURSIVE parse_loop(_, _)
parse_loop(v, out) ==
    IF v = <<>> THEN [ok |-> TRUE, len |-> out]
    ELSE IF ~IsDigit(Head(v)) THEN [ok |-> FALSE, len |-> 0]
    ELSE IF out > SizeMax \div 10 THEN [ok |-> FALSE, len |-> 0]
    ELSE IF out * 10 > SizeMax - DigitOf(Head(v)) THEN [ok |-> FALSE, len |-> 0]
    ELSE parse_loop(Tail(v), out * 10 + DigitOf(Head(v)))
parse_content_length(v) ==
    IF v = <<>> THEN [ok |-> FALSE, len |-> 0] ELSE parse_loop(v, 0)

\* bool method_is_get(req)
method_is_get(req) == iequals(req.method, "GET")

TooLarge(message, o, what, got) ==
    [status |-> 413, code |-> "payload_too_large", message |-> message,
     details |-> {<<"max_bytes", o.max_bytes>>, <<what, got>>}]
LengthRequired ==
    [status |-> 411, code |-> "length_required",
     message |-> "Content-Length is required by this server policy", details |-> {}]

\* body_limit after the test of should_apply / GET
body_limit_enforce(o, req) ==
    IF req.body_size > 0
    THEN IF req.body_size > o.max_bytes
         THEN SendError(NoOut, TooLarge("Request body exceeds the configured limit",
                                        o, "got_bytes", req.body_size))
         ELSE CallNext(NoOut)
    ELSE IF req.content_length # <<>>
    THEN LET cl == parse_content_length(req.content_length) IN
         IF cl.ok /\ cl.len > o.max_bytes
         THEN SendError(NoOut, TooLarge("Content-Length exceeds the configured limit",
                                        o, "content_length", cl.len))
         ELSE CallNext(NoOut)
    ELSE IF ~o.allow_chunked THEN SendError(NoOut, LengthRequired)
    ELSE CallNext(NoOut)

\* the lambda returned by body_limit(opt), called for req. should_apply is
\* "unset", or what the callback does: "true", "false", "raises"
body_limit(o, req) ==
    IF o.should_apply # "unset"
    THEN IF o.should_apply = "raises" THEN Raise(NoOut)
         ELSE IF o.should_apply = "false" THEN CallNext(NoOut)
         ELSE body_limit_enforce(o, req)
    ELSE IF method_is_get(req) /\ ~o.apply_to_get THEN CallNext(NoOut)
         ELSE body_limit_enforce(o, req)

\* the lambda returned by rate_limit(opt), called for a request whose key is
\* req.key, with the bucket of that key in state req.bucket (a new one when
\* the key has none: ~req.known) and the clock at req.at. key_fn is "unset" or what the
\* callback does: "returns", "raises"
rate_limit(o, req) ==
    IF o.key_fn = "raises" THEN Raise(NoOut)
    ELSE LET b == IF ~req.known THEN NewBucket(o.capacity, o.refill_per_sec, req.at)
                  ELSE req.bucket
             c == try_consume(b, One, req.at)
         IN  IF ~c.ret
             THEN SendError(NoOut, [status |-> 429, code |-> "rate_limited",
                                    message |-> "Too many requests",
                                    details |-> {<<"key", req.key>>}])
             ELSE CallNext(NoOut)

\* the options and requests tried
IpLists == {<<>>, << <<"a">> >>, << <<"b">>, <<"a">> >>}
IpFilterOptions ==
    [allow : IpLists, deny : IpLists, use_remote_addr_fallback : BOOLEAN]
IpRequests ==
    [forwarded : {<<>>, <<"a">>, <<"c">>, <<" ", "a">>, <<"b", ",", " ", "a">>, <<" ">>},
     real_ip : {<<>>, <<"b">>}]
CsrfOptions == [cookie_name : {"csrf_token"}, protect_get : BOOLEAN]
CsrfRequests ==
    [method : {"GET", "get", "POST", "post", "HEAD", "DELETE"},
     csrf_header : {"", "t1", "t2"},
     cookie : {<<>>, << <<"csrf_token", "t1">> >>,
               << <<"sid", "t2">>, <<"csrf_token", "t2">> >>, << <<"csrf_token", "">> >>}]
BodyLimitOptions ==
    [max_bytes : {0, 4}, apply_to_get : BOOLEAN, allow_chunked : BOOLEAN,
     should_apply : {"unset", "true", "false", "raises"}]
BodyRequests ==
    [method : {"GET", "Get", "POST"}, body_size : {0, 4, 5},
     content_length : {<<>>, <<"4">>, <<"5">>, <<"x">>, <<"2", "5", "6">>}]
RateLimitOptions ==
    [capacity : LimCapacities, refill_per_sec : LimRates, key_fn : {"unset", "returns", "raises"}]
RateRequests ==
    [key : {"anonymous"}, at : {1000}, known : BOOLEAN,
     bucket : {[NewBucket(2 * One, 2, 0) EXCEPT !.tokens_ = tk, !.last_ms_ = l] :
                  tk \in {0, 500, One}, l \in {750, 1000}}]

NoGuard == [guard |-> "none", opt |-> 0, req |-> 0, done |-> FALSE, out |-> NoOut]
GuardIdle == gd = NoGuard
GuardInputs ==
    {[NoGuard EXCEPT !.guard = "ip_filter", !.opt = o, !.req = r] :
        o \in IpFilterOptions, r \in IpRequests}
    \cup {[NoGuard EXCEPT !.guard = "csrf", !.opt = o, !.req = r] :
        o \in CsrfOptions, r \in CsrfRequests}
    \cup {[NoGuard EXCEPT !.guard = "body_limit", !.opt = o, !.req = r] :
        o \in BodyLimitOptions, r \in BodyRequests}
    \cup {[NoGuard EXCEPT !.guard = "rate_limit", !.opt = o, !.req = r] :
        o \in RateLimitOptions, r \in RateRequests}

\* mw(ctx, next) for each of the guards
Guarded(g, out) == /\ gd.guard = g /\ ~gd.done
                   /\ gd' = [gd EXCEPT !.done = TRUE, !.out = out]
                   /\ UNCHANGED notGuard
IpFilterCall == gd.guard = "ip_filter" /\ Guarded("ip_filter", ip_filter(gd.opt, gd.req))
CsrfCall == gd.guard = "csrf" /\ Guarded("csrf", csrf(gd.opt, gd.req))
BodyLimitCall == gd.guard = "body_limit" /\ Guarded("body_limit", body_limit(gd.opt, gd.req))
RateLimitCall == gd.guard = "rate_limit" /\ Guarded("rate_limit", rate_limit(gd.opt, gd.req))

(***************************************************************************)
(* Concurrent calls of run on one pipeline                                 *)
(* Each call has its own idx, ctx and step (locals of run) and its own     *)
(* Request; middlewares_ is shared and only read. No hooks are set. User   *)
(* code invokes its continuation at most once here: a redundant invocation *)
(* does not reach step().                                                  *)
(***************************************************************************)
Runs == {1, 2}
NoCall_run == [pc |-> "idle", fh |-> FALSE, idx |-> 0, stack |-> <<>>, failing |-> FALSE,
               outcome |-> "none", state |-> 0, trace |-> <<>>]
CrIdle == cr = [r \in Runs |-> NoCall_run]

\* idx kept in the pipeline: one position for all calls
SetPosition_shared(c, r, i) == [q \in Runs |-> [c[q] EXCEPT !.idx = i]]

\* std::size_t idx = 0; ... ++idx; (the local of call r)
SetPosition(c, r, i) == [c EXCEPT ![r].idx = i]

\* step() of call r, with the user frames stk below it
cstep(c, r, stk) ==
    IF c[r].idx >= n
    THEN IF c[r].fh
         THEN [SetPosition(c, r, c[r].idx) EXCEPT
                  ![r].stack = Append(stk, FinalFrame),
                  ![r].trace = Append(@, <<"final", 0>>)]
         ELSE [c EXCEPT ![r].stack = stk]
    ELSE [SetPosition(c, r, c[r].idx + 1) EXCEPT
             ![r].stack = Append(stk, MwFrame(middlewares_[c[r].idx + 1])),
             ![r].trace = Append(@, <<"mw", middlewares_[c[r].idx + 1]>>)]

CTop(r) == cr[r].stack[Len(cr[r].stack)]
CInUserCode(r) == cr[r].pc = "stepping" /\ cr[r].stack # <<>> /\ ~cr[r].failing

\* p.use(mw), before any call of run
CUse == (\A r \in Runs : cr[r].pc = "idle") /\ use

\* p.run(req, res, final_handler) on thread r, up to the first user code
CRunStart(r) ==
    /\ cr[r].pc = "idle"
    /\ \E fh \in BOOLEAN :
         cr' = cstep(SetPosition([cr EXCEPT ![r].pc = "stepping", ![r].fh = fh], r, 0), r, <<>>)
    /\ UNCHANGED notCr

\* the running middleware of call r stores a value in the state of its request
CSetState(r) ==
    /\ CInUserCode(r) /\ CTop(r).kind = "mw"
    /\ cr[r].state = 0
    /\ cr' = [cr EXCEPT ![r].state = r]
    /\ UNCHANGED notCr

\* ... invokes its continuation
CInvoke(r) ==
    /\ CInUserCode(r) /\ CTop(r).kind = "mw"
    /\ ~called(CTop(r).next)
    /\ LET nx == call_op(CTop(r).next)
           me == [CTop(r) EXCEPT !.next = nx.nx, !.inv = @ + 1]
           stk == [cr[r].stack EXCEPT ![Len(cr[r].stack)] = me]
           c1 == [cr EXCEPT ![r].trace = Append(@, <<"next", me.id>>)]
       IN  cr' = IF nx.fire THEN cstep(c1, r, stk) ELSE [c1 EXCEPT ![r].stack = stk]
    /\ UNCHANGED notCr

\* ... returns (the final handler as well)
CReturn(r) ==
    /\ CInUserCode(r)
    /\ cr' = [cr EXCEPT ![r].stack = Pop(@), ![r].trace = Append(@, <<"ret", CTop(r).id>>)]
    /\ UNCHANGED notCr

\* ... raises
CThrow(r) ==
    /\ CInUserCode(r)
    /\ cr' = [cr EXCEPT ![r].stack = Pop(@), ![r].failing = TRUE,
                        ![r].trace = Append(@, <<"throw", CTop(r).id>>)]
    /\ UNCHANGED notCr

\* a failure of call r reaches a middleware inside next(): it catches it
CCatch(r) ==
    /\ cr[r].pc = "stepping" /\ cr[r].stack # <<>> /\ cr[r].failing
    /\ cr' = [cr EXCEPT ![r].failing = FALSE, ![r].trace = Append(@, <<"catch", CTop(r).id>>)]
    /\ UNCHANGED notCr

\* ... or lets it pass
CPropagate(r) ==
    /\ cr[r].pc = "stepping" /\ cr[r].stack # <<>> /\ cr[r].failing
    /\ cr' = [cr EXCEPT ![r].stack = Pop(@), ![r].trace = Append(@, <<"unwind", CTop(r).id>>)]
    /\ UNCHANGED notCr

\* step() is back in run: the call returns, or rethrows the failure
CRunEnd(r) ==
    /\ cr[r].pc = "stepping" /\ cr[r].stack = <<>>
    /\ cr' = [cr EXCEPT ![r].pc = "done",
                        ![r].outcome = IF cr[r].failing THEN "raised" ELSE "returned"]
    /\ UNCHANGED notCr

(***************************************************************************)
(* normalize, tried on Errors of any content                               *)
(***************************************************************************)
NormStatuses == {0 - 1, 0, 99, 100, 200, 429, 599, 600, 999}
NormInputs ==
    {[status |-> sc, code |-> c, message |-> m, details |-> d] :
        sc \in NormStatuses, c \in {"", "conflict"}, m \in {"", "Conflict"},
        d \in {{}, {<<"hint", "retry">>}}}

NotNormalized == [done |-> FALSE, e |-> DefaultError]
NormIdle == errIn = DefaultError /\ errOut = NotNormalized

\* const Error out = normalize(e)
Normalize ==
    /\ ~errOut.done
    /\ errOut' = [done |-> TRUE, e |-> normalize(errIn)]
    /\ UNCHANGED <<notNorm, errIn>>

RunsIdle == runsDone = 0

(***************************************************************************)
(* refill_locked_ on its own: a bucket in any state its class allows, and  *)
(* clock readings in any order, a reading below last_ms_ included          *)
(***************************************************************************)
RefillBase == 1000
RefillReadings == {0, 999, 1000, 1001, 1250, 2000, 3000}
RefillBuckets ==
    {[capacity_ |-> c, refill_per_sec_ |-> r, tokens_ |-> tk, last_ms_ |-> RefillBase] :
        c \in {0, One, 2 * One + 500}, r \in {0, 1, 3}, tk \in {0, 500, One}}
NoRefill(b) == [b0 |-> b, pre |-> b, at |-> b.last_ms_, b |-> b, count |-> 0]
RefIdle == rf = NoRefill(DefaultBucket)

\* refill_locked_() with Clock::now_ms_steady() = t
RefillCall ==
    /\ rf.count < MaxRefills
    /\ \E t \in RefillReadings :
         rf' = [rf EXCEPT !.pre = rf.b, !.at = t, !.b = refill_locked_(rf.b, t),
                          !.count = @ + 1]
    /\ UNCHANGED notRef

(***************************************************************************)
(* PeriodicTask (periodic.hpp): start() and stop() called from several     *)
(* threads, and the worker threads start() launches.  Each access to an    *)
(* atomic is one step.  thread_ is a plain std::thread: a joinable() read  *)
(* that is not ordered with the assignment in start() sees the value       *)
(* before or after it, as the interleaving has it.                         *)
(***************************************************************************)
PtThreads == {1, 2}

NoCall_pt == [op |-> "none", at |-> "none", w |-> 0, clean |-> TRUE]

NoStat == [calls |-> 0, posts |-> 0, terminated |-> FALSE,
           quiet |-> FALSE, postsAtStop |-> 0, restarted |-> FALSE]

PeriodicIdle ==
    /\ running_ = FALSE /\ stop_flag_ = FALSE /\ thread_ = 0
    /\ workers = <<>>
    /\ caller = [t \in PtThreads |-> NoCall_pt]
    /\ pstat = NoStat

\* bool is_running() const noexcept
is_running == running_

Alive == {w \in DOMAIN workers : workers[w] # "done"}

InStart == {t \in PtThreads : caller[t].op = "start"}

InStop == {t \in PtThreads : caller[t].op = "stop"}

\* the call of thread t is over
PtReturn(t) == [caller EXCEPT ![t] = NoCall_pt]

\* a stop() call returns: it was clean when no start() ran while it did
StopReturned(t) ==
    IF caller[t].clean /\ InStart = {}
    THEN [pstat EXCEPT !.quiet = TRUE, !.postsAtStop = pstat.posts]
    ELSE pstat

\* start(): if (running_.exchange(true)) return;
start(t) ==
    /\ ~pstat.terminated
    /\ caller[t].op = "none"
    /\ pstat.calls < MaxPtCalls
    /\ running_' = TRUE
    /\ caller' = [u \in PtThreads |->
                    IF u = t
                    THEN IF running_ THEN NoCall_pt
                         ELSE [NoCall_pt EXCEPT !.op = "start", !.at = "store"]
                    ELSE [caller[u] EXCEPT !.clean = FALSE]]
    /\ pstat' = [pstat EXCEPT !.calls = @ + 1, !.quiet = FALSE,
                              !.restarted = pstat.quiet]
    /\ UNCHANGED <<stop_flag_, thread_, workers, notPeriodic>>

\* start(): stop_flag_.store(false);
start_store(t) ==
    /\ ~pstat.terminated
    /\ caller[t].op = "start" /\ caller[t].at = "store"
    /\ stop_flag_' = FALSE
    /\ caller' = [caller EXCEPT ![t].at = "launch"]
    /\ UNCHANGED <<running_, thread_, workers, pstat, notPeriodic>>

\* start(): std::thread([this]() { run_loop_(); }) -- the new thread runs
start_launch(t) ==
    /\ ~pstat.terminated
    /\ caller[t].op = "start" /\ caller[t].at = "launch"
    /\ workers' = Append(workers, "check")
    /\ caller' = [caller EXCEPT ![t].at = "assign", ![t].w = Len(workers) + 1]
    /\ UNCHANGED <<running_, stop_flag_, thread_, pstat, notPeriodic>>

\* start(): thread_ = <the new thread>; assigning to a joinable std::thread
\* calls std::terminate
start_assign(t) ==
    /\ ~pstat.terminated
    /\ caller[t].op = "start" /\ caller[t].at = "assign"
    /\ IF thread_ # 0
       THEN /\ pstat' = [pstat EXCEPT !.terminated = TRUE]
            /\ UNCHANGED <<thread_, caller>>
       ELSE /\ thread_' = caller[t].w
            /\ caller' = PtReturn(t)
            /\ UNCHANGED pstat
    /\ UNCHANGED <<running_, stop_flag_, workers, notPeriodic>>

\* stop(): if (!running_.exchange(false)) return;
stop(t) ==
    /\ ~pstat.terminated
    /\ caller[t].op = "none"
    /\ pstat.calls < MaxPtCalls
    /\ running_' = FALSE
    /\ IF running_
       THEN /\ caller' = [caller EXCEPT ![t] = [NoCall_pt EXCEPT !.op = "stop", !.at = "store",
                                                              !.clean = (InStart = {})]]
            /\ pstat' = [pstat EXCEPT !.calls = @ + 1]
       ELSE /\ caller' = PtReturn(t)
            /\ pstat' = [(IF InStart = {}
                          THEN [pstat EXCEPT !.quiet = TRUE, !.postsAtStop = pstat.posts]
                          ELSE pstat) EXCEPT !.calls = @ + 1]
    /\ UNCHANGED <<stop_flag_, thread_, workers, notPeriodic>>

\* stop(): stop_flag_.store(true);
stop_store(t) ==
    /\ ~pstat.terminated
    /\ caller[t].op = "stop" /\ caller[t].at = "store"
    /\ stop_flag_' = TRUE
    /\ caller' = [caller EXCEPT ![t].at = "joinable"]
    /\ UNCHANGED <<running_, thread_, workers, pstat, notPeriodic>>

\* stop(): if (thread_.joinable())
stop_joinable(t) ==
    /\ ~pstat.terminated
    /\ caller[t].op = "stop" /\ caller[t].at = "joinable"
    /\ IF thread_ # 0
       THEN /\ caller' = [caller EXCEPT ![t].at = "join", ![t].w = thread_]
            /\ UNCHANGED pstat
       ELSE /\ caller' = PtReturn(t)
            /\ pstat' = StopReturned(t)
    /\ UNCHANGED <<running_, stop_flag_, thread_, workers, notPeriodic>>

\* stop(): thread_.join(); -- returns once the worker has left run_loop_
stop_join(t) ==
    /\ ~pstat.terminated
    /\ caller[t].op = "stop" /\ caller[t].at = "join"
    /\ workers[caller[t].w] = "done"
    /\ thread_' = 0
    /\ caller' = PtReturn(t)
    /\ pstat' = StopReturned(t)
    /\ UNCHANGED <<running_, stop_flag_, workers, notPeriodic>>

\* run_loop_(): while (!stop_flag_.load()) { sleep_until(next); ...
run_loop_check(w) ==
    /\ ~pstat.terminated
    /\ workers[w] = "check"
    /\ workers' = [workers EXCEPT ![w] = IF stop_flag_ THEN "done" ELSE "sleep"]
    /\ UNCHANGED <<running_, stop_flag_, thread_, caller, pstat, notPeriodic>>

\* run_loop_(): ... if (stop_flag_.load()) break; if (ex_ && job_) ex_->post(job_, opt_); }
run_loop_post(w) ==
    /\ ~pstat.terminated
    /\ workers[w] = "sleep"
    /\ IF stop_flag_
       THEN /\ workers' = [workers EXCEPT ![w] = "done"]
            /\ UNCHANGED pstat
       ELSE /\ pstat.posts < MaxPosts
            /\ workers' = [workers EXCEPT ![w] = "check"]
            /\ pstat' = [pstat EXCEPT !.posts = @ + 1]
    /\ UNCHANGED <<running_, stop_flag_, thread_, caller, notPeriodic>>

(***************************************************************************)
(* retry_after_ms(need), then a wait of the time it answered with nothing  *)
(* else done to the bucket, then try_consume(need)                         *)
(***************************************************************************)
RetryTimes == {RefillBase, RefillBase + 250}

NoRetry(b) == [b |-> b, need |-> 0, at |-> b.last_ms_, w |-> 0, stage |-> "new", ok |-> FALSE]
RetryIdle == rw = NoRetry(DefaultBucket)

\* const auto w = b.retry_after_ms(need), with Clock::now_ms_steady() = t
RetryAsk ==
    /\ rw.stage = "new"
    /\ \E need \in Needs, t \in RetryTimes :
         LET r == retry_after_ms(rw.b, need, t) IN
         rw' = [rw EXCEPT !.b = r.b, !.need = need, !.at = t, !.w = r.ret,
                          !.stage = "asked"]
    /\ UNCHANGED notRetry

\* the clock advances by the w milliseconds answered
RetryWait ==
    /\ rw.stage = "asked"
    /\ rw' = [rw EXCEPT !.at = @ + rw.w, !.stage = "waited"]
    /\ UNCHANGED notRetry

\* b.try_consume(need) once the wait is over
RetryTry ==
    /\ rw.stage = "waited"
    /\ LET r == try_consume(rw.b, rw.need, rw.at) IN
       rw' = [rw EXCEPT !.b = r.b, !.ok = r.ret, !.stage = "tried"]
    /\ UNCHANGED notRetry

(***************************************************************************)
(* Two rate_limit middleware in one process. Each looks its                *)
(* RateLimiterState up per request: the one its Services provide, or the   *)
(* function-local static fallback_global, which is one object for every    *)
(* closure rate_limit() returns.                                           *)
(***************************************************************************)
Limiters == {1, 2}
\* the RateLimiterState objects: the static, and one provided through Services
LimStates == {"fallback_global", "provided"}
ShCapacities == {One, 2 * One, 3 * One}
ShOpts == [capacity : ShCapacities, refill_per_sec : {0}, add_headers : {TRUE}]

NoEntry == [known |-> FALSE, b |-> DefaultBucket]

NoShared(o, svc) ==
    [opts |-> o, svc |-> svc,
     buckets |-> [s \in LimStates |-> [k \in Keys |-> NoEntry]],
     through |-> [i \in Limiters |-> [k \in Keys |-> 0]],
     runs |-> 0]

SharedIdle == sh = NoShared([i \in Limiters |-> DefaultOpt], [i \in Limiters |-> FALSE])

\* if (auto svc = ctx.services().get<RateLimiterState>()) st = svc.get();
\* else st = &fallback_global;
state_of(i) == IF sh.svc[i] THEN "provided" ELSE "fallback_global"

\* find / make_unique / emplace: the bucket of the key, made from the options
\* of the middleware that sees the key first
bucket_for(o, e, t) ==
    IF e.known THEN e.b ELSE NewBucket(o.capacity, o.refill_per_sec, t)

\* middleware i handles a request for key
SharedRun(i, key) ==
    /\ sh.runs < MaxShRuns
    /\ LET s == state_of(i)
           b == bucket_for(sh.opts[i], sh.buckets[s][key], now)
           c == try_consume(b, One, now)
           r == retry_after_ms(c.b, One, now)
       IN sh' = [sh EXCEPT !.buckets[s][key] = [known |-> TRUE,
                                                b |-> IF c.ret THEN c.b ELSE r.b],
                           !.through[i][key] = IF c.ret THEN @ + 1 ELSE @,
                           !.runs = @ + 1]
    /\ UNCHANGED notShared

(***************************************************************************)
(* http_cache (http_cache.hpp). The Cache (vix::cache) is a collaborator   *)
(* known by its interface: put(key, entry) keeps the entry, get(key, t,    *)
(* Online) returns it while it is younger than the policy's ttl_ms, and    *)
(* CacheKey::fromRequest gives equal keys to equal method, path and query  *)
(* (no vary headers are configured).                                       *)
(***************************************************************************)
\* request targets, as the characters of the string
HcTargets == {<<"/", "a">>, <<"/", "a", "?">>, <<"/", "a", "?", "p">>}
HcRequests == [method : {"GET", "POST"}, target : HcTargets,
               bypass : {"", "BYPASS"}]
\* struct HttpCacheOptions, bypass_header and bypass_value left as they are
HcOptions == [cache_200_only : BOOLEAN, require_body : BOOLEAN, allow_bypass : BOOLEAN]
DefaultHcOptions == [cache_200_only |-> TRUE, require_body |-> FALSE, allow_bypass |-> TRUE]
\* what the continuation does: the response it writes, or the failure it raises
Downstreams ==
    {d \in [status : {200, 404}, body : {"", "one"}, raises : BOOLEAN] :
        d.raises => (d.status = 200 /\ d.body = "")}

\* std::string extract_query_raw_from_target(std::string_view target)
extract_query_raw_from_target(target) ==
    LET qpos == Find(target, "?") IN
    IF qpos = 0 THEN <<>>
    ELSE IF qpos + 1 > Len(target) THEN <<>>
    ELSE SubSeq(target, qpos + 1, Len(target))

\* Request::path(): the target up to the '?'
path(target) ==
    LET qpos == Find(target, "?") IN
    IF qpos = 0 THEN target ELSE SubSeq(target, 1, qpos - 1)

\* the lambda lower in has_bypass, on the header values tried
lower(v) == IF v \in {"bypass", "BYPASS"} THEN "bypass" ELSE v

\* bool has_bypass(Request &req, const HttpCacheOptions &opt)
has_bypass(req, o) ==
    IF ~o.allow_bypass THEN FALSE
    ELSE IF req.bypass = "" THEN FALSE
    ELSE lower(req.bypass) = lower("bypass")

\* vix::cache::CacheKey::fromRequest(method, path, query_raw, headers, vary_headers)
fromRequest(method, p, query_raw) == <<method, p, query_raw>>

HcKeys == {fromRequest("GET", path(t), extract_query_raw_from_target(t)) : t \in HcTargets}

NoCacheEntry == [has |-> FALSE, status |-> 0, body |-> "", created_at_ms |-> 0]

\* Cache::get(key, now_ms, CacheContext::Online()): the entry while it is
\* younger than ttl_ms; atTtl says whether this Cache still answers an entry
\* of exactly that age
cache_get(store, key, t, atTtl) ==
    LET e == store[key] IN
    IF ~e.has THEN NoCacheEntry
    ELSE IF t - e.created_at_ms < HcTtl THEN e
    ELSE IF t - e.created_at_ms = HcTtl /\ atTtl THEN e
    ELSE NoCacheEntry

\* Cache::put(key, entry)
cache_put(store, key, e) == [store EXCEPT ![key] = e]

\* http::response<http::string_body>: status 200 and an empty body
FreshResponse == [status |-> 200, body |-> "", cache_status |-> ""]

NoHcCall == [req |-> [method |-> "", target |-> <<>>, bypass |-> ""], key |-> <<>>,
             t0 |-> 0, lookup |-> "none", next_calls |-> 0, raised |-> FALSE,
             res |-> FreshResponse, memo |-> NoCacheEntry]

\* the response once the continuation has run through next()
after_next(res, down) ==
    LET nx == call_op(NewNext(TRUE)) IN
    [res |-> IF nx.fire /\ ~down.raises
             THEN [res EXCEPT !.status = down.status, !.body = down.body] ELSE res,
     next_calls |-> IF nx.fire THEN 1 ELSE 0,
     raised |-> nx.fire /\ down.raises]

\* http_cache that stores nothing after a miss
http_cache_noput(has_cache, o, store, req, t0, down, atTtl) ==
    LET key == fromRequest(req.method, path(req.target),
                           extract_query_raw_from_target(req.target))
        hit == cache_get(store, key, t0, atTtl)
        nr == after_next(FreshResponse, down)
    IN  IF ~has_cache \/ req.method # "GET" \/ has_bypass(req, o)
        THEN [store |-> store, key |-> key, lookup |-> "none", next_calls |-> nr.next_calls,
              raised |-> nr.raised, res |-> nr.res]
        ELSE IF hit.has
        THEN [store |-> store, key |-> key, lookup |-> "hit", next_calls |-> 0,
              raised |-> FALSE,
              res |-> [status |-> hit.status, body |-> hit.body, cache_status |-> "hit"]]
        ELSE [store |-> store, key |-> key, lookup |-> "miss", next_calls |-> nr.next_calls,
              raised |-> nr.raised,
              res |-> IF nr.raised THEN nr.res ELSE [nr.res EXCEPT !.cache_status = "miss"]]

\* the lambda returned by http_cache(cache, opt), called at time t0 for req
\* with a fresh response and a continuation that does down: the Cache, the
\* response, and what was done
http_cache(has_cache, o, store, req, t0, down, atTtl) ==
    LET key == fromRequest(req.method, path(req.target),
                           extract_query_raw_from_target(req.target))
        hit == cache_get(store, key, t0, atTtl)
        nr == after_next(FreshResponse, down)
    IN  IF ~has_cache
        THEN [store |-> store, key |-> key, lookup |-> "none", next_calls |-> nr.next_calls,
              raised |-> nr.raised, res |-> nr.res]
        ELSE IF req.method # "GET"
        THEN [store |-> store, key |-> key, lookup |-> "none", next_calls |-> nr.next_calls,
              raised |-> nr.raised, res |-> nr.res]
        ELSE IF has_bypass(req, o)
        THEN [store |-> store, key |-> key, lookup |-> "none", next_calls |-> nr.next_calls,
              raised |-> nr.raised,
              res |-> IF nr.raised THEN nr.res ELSE [nr.res EXCEPT !.cache_status = "bypass"]]
        ELSE IF hit.has
        THEN [store |-> store, key |-> key, lookup |-> "hit", next_calls |-> 0,
              raised |-> FALSE,
              res |-> [status |-> hit.status, body |-> hit.body, cache_status |-> "hit"]]
        ELSE IF nr.raised
        THEN [store |-> store, key |-> key, lookup |-> "miss", next_calls |-> nr.next_calls,
              raised |-> TRUE, res |-> nr.res]
        ELSE LET r == [nr.res EXCEPT !.cache_status = "miss"] IN
             [store |-> IF (o.cache_200_only /\ r.status # 200)
                           \/ (o.require_body /\ r.body = "")
                        THEN store
                        ELSE cache_put(store, key,
                                       [has |-> TRUE, status |-> r.status, body |-> r.body,
                                        created_at_ms |-> t0]),
              key |-> key, lookup |-> "miss", next_calls |-> nr.next_calls,
              raised |-> FALSE, res |-> r]

NoHttpCache(o, has_cache, atTtl) ==
    [opt |-> o, has_cache |-> has_cache, atTtl |-> atTtl,
     store |-> [k \in HcKeys |-> NoCacheEntry],
     clock |-> 0, ticks |-> 0, calls |-> 0, last |-> NoHcCall,
     memo |-> [k \in HcKeys |-> NoCacheEntry]]

CacheIdle == hc = NoHttpCache(DefaultHcOptions, FALSE, FALSE)

\* mw(req, w, next) with a fresh response. memo keeps, per key, the latest
\* GET that missed and came back from the continuation with status 200
HttpCacheCall ==
    /\ hc.calls < MaxHcCalls
    /\ \E req \in HcRequests, down \in Downstreams :
         LET r == http_cache(hc.has_cache, hc.opt, hc.store, req, hc.clock, down, hc.atTtl)
             k == IF req.method = "GET" THEN r.key ELSE CHOOSE kk \in HcKeys : TRUE
         IN hc' = [hc EXCEPT
                     !.store = r.store,
                     !.calls = @ + 1,
                     !.last = [req |-> req, key |-> r.key, t0 |-> hc.clock,
                               lookup |-> r.lookup, next_calls |-> r.next_calls,
                               raised |-> r.raised, res |-> r.res,
                               memo |-> IF req.method = "GET" THEN hc.memo[r.key]
                                        ELSE NoCacheEntry],
                     !.memo[k] = IF r.lookup = "miss" /\ ~r.raised /\ r.res.status = 200
                                 THEN [has |-> TRUE, status |-> r.res.status,
                                       body |-> r.res.body, created_at_ms |-> hc.clock]
                                 ELSE @]
    /\ UNCHANGED notCache

\* the steady clock advances between two requests
HcTick ==
    /\ hc.ticks < MaxHcTicks
    /\ hc' = [hc EXCEPT !.clock = @ + 1, !.ticks = @ + 1]
    /\ UNCHANGED notCache

(***************************************************************************)
(* session (session.cpp) with the InMemorySessionStore it makes when none  *)
(* is configured. Session data is one value, 0 when nothing was set.       *)
(***************************************************************************)
Sids == {"s1", "s2"}
Secrets == {"dev_secret", "other"}

\* hmac_sha256_b64url(msg, secret): one value per message and secret
hmac_sha256_b64url(msg, secret) == <<"hmac", msg, secret>>

\* sign_sid(sid, secret): sid + "." + sig, kept as the two parts
sign_sid(sid, secret) ==
    [present |-> TRUE, dot |-> TRUE, sid |-> sid, sig |-> hmac_sha256_b64url(sid, secret)]

\* bool verify_sid(cookie_value, secret, out_sid)
verify_sid(cookie_value, secret) ==
    IF ~cookie_value.dot THEN FALSE
    ELSE hmac_sha256_b64url(cookie_value.sid, secret) = cookie_value.sig

\* struct Session, default member initialisers
NewSession == [id |-> "", data |-> 0, is_new |-> FALSE, dirty |-> FALSE, destroyed |-> FALSE]

NoStored == [has |-> FALSE, s |-> NewSession]

\* what the request brings in the session cookie: nothing, a value without a
\* dot, or sid.sig signed with some secret
NoCookie == [present |-> FALSE, dot |-> FALSE, sid |-> "", sig |-> <<>>]
SessionCookies ==
    {NoCookie}
    \cup {[present |-> TRUE, dot |-> FALSE, sid |-> sid, sig |-> <<>>] : sid \in Sids}
    \cup {[present |-> TRUE, dot |-> TRUE, sid |-> sid, sig |-> hmac_sha256_b64url(sid, k)] :
            sid \in Sids, k \in Secrets}

\* what the handler does with the Session it finds in the request state
SessionUses == {"nothing", "set", "destroy", "raises"}

\* InMemorySessionStore::load(sid)
load(map, sid) == map[sid]

\* InMemorySessionStore::save(s, ttl): map_[s.id] = s
save(map, sess) == [map EXCEPT ![sess.id] = [has |-> TRUE, s |-> sess]]

\* InMemorySessionStore::destroy(sid)
destroy(map, sid) == [map EXCEPT ![sid] = NoStored]

\* the Session after the handler has used it
used(sess, does) ==
    CASE does = "set"     -> [sess EXCEPT !.data = 1, !.dirty = TRUE]
      [] does = "destroy" -> [sess EXCEPT !.destroyed = TRUE, !.dirty = TRUE]
      [] OTHER           -> sess

NoSessionCall ==
    [cookie |-> NoCookie, use |-> "nothing", status |-> 0, loaded |-> FALSE,
     created |-> FALSE, seen |-> NewSession, has_state |-> FALSE, saved |-> FALSE,
     set_cookie |-> "none", value |-> NoCookie]

\* the lambda returned by session(opt), for a request with this session
\* cookie, a handler that acts as does says, and random_sid() giving fresh: the
\* store, and what was done
session(o, map, cookie, does, fresh) ==
    IF o.secret = ""
    THEN [map |-> map, call |-> [NoSessionCall EXCEPT !.status = 500]]
    ELSE
    LET valid == cookie.present /\ verify_sid(cookie, o.secret)
        found == IF valid THEN load(map, cookie.sid) ELSE NoStored
        loaded == found.has
        created == ~loaded /\ o.auto_create
        tmp == IF loaded THEN [found.s EXCEPT !.id = cookie.sid]
               ELSE IF created THEN [NewSession EXCEPT !.id = fresh, !.is_new = TRUE]
               ELSE NewSession
        has_session == loaded \/ created
        ps == used(tmp, does)
        c0 == [NoSessionCall EXCEPT !.cookie = cookie, !.use = does, !.loaded = loaded,
                                    !.created = created, !.seen = tmp,
                                    !.has_state = has_session]
    IN  IF does = "raises" \/ ~has_session
        THEN [map |-> map, call |-> c0]
        ELSE IF ps.destroyed
        THEN [map |-> destroy(map, ps.id),
              call |-> [c0 EXCEPT !.set_cookie = "cleared"]]
        ELSE [map |-> IF ps.is_new \/ ps.dirty THEN save(map, ps) ELSE map,
              call |-> [c0 EXCEPT !.saved = ps.is_new \/ ps.dirty,
                                  !.set_cookie = IF ps.is_new THEN "issued" ELSE "none",
                                  !.value = IF ps.is_new THEN sign_sid(ps.id, o.secret)
                                            ELSE NoCookie]]

SessionOptionsTried == [secret : {"", "dev_secret"}, auto_create : BOOLEAN]
DefaultSessionOptions == [secret |-> "", auto_create |-> TRUE]

NoSessions(o) ==
    [opt |-> o, map_ |-> [sid \in Sids |-> NoStored], calls |-> 0, last |-> NoSessionCall]

SessionIdle == ss = NoSessions(DefaultSessionOptions)

\* one request through the middleware
SessionCall ==
    /\ ss.calls < MaxSsCalls
    /\ \E cookie \in SessionCookies, does \in SessionUses, fresh \in Sids :
         LET r == session(ss.opt, ss.map_, cookie, does, fresh) IN
         ss' = [ss EXCEPT !.map_ = r.map, !.calls = @ + 1, !.last = r.call]
    /\ UNCHANGED notSession

(***************************************************************************)
(* set_cookie_dev (presets.hpp). The lambda is mutable and moves its       *)
(* captured strings into the Cookie; a moved-from std::string is valid but *)
(* unspecified: it is left empty or as it was.                             *)
(***************************************************************************)
\* the captured std::string members
CkStrings == {"name", "value", "same_site", "path"}

\* the arguments given to set_cookie_dev
CookieConfigs ==
    [name : {"sid", "theme"}, value : {"v1"}, max_age : {3600}, secure : BOOLEAN,
     same_site : {"Lax", "None"}, http_only : {TRUE}, path : {"/", "/app"}]
DefaultCookieConfig ==
    [name |-> "sid", value |-> "v1", max_age |-> 3600, secure |-> FALSE,
     same_site |-> "Lax", http_only |-> TRUE, path |-> "/"]

\* std::to_string of the ages tried
to_string(i) == IF i = 3600 THEN "3600" ELSE IF i = 0 THEN "0" ELSE "other"

\* std::string build_set_cookie_value(const Cookie &c), as the pieces appended
build_set_cookie_value(c) ==
    <<c.name, "=", c.value>>
    \o (IF c.path # "" THEN <<"; Path=", c.path>> ELSE <<>>)
    \o (IF c.domain # "" THEN <<"; Domain=", c.domain>> ELSE <<>>)
    \o (IF c.max_age >= 0 THEN <<"; Max-Age=", to_string(c.max_age)>> ELSE <<>>)
    \o (IF c.http_only THEN <<"; HttpOnly">> ELSE <<>>)
    \o (IF c.secure THEN <<"; Secure">> ELSE <<>>)
    \o (IF c.same_site # "" THEN <<"; SameSite=", c.same_site>> ELSE <<>>)

NoCookieCall == [raised |-> FALSE, log |-> <<>>, header |-> <<>>]

\* the lambda returned by set_cookie_dev, with its captures cap, a chain that
\* returns or raises, and left saying which moved-from captures keep their
\* text: the captures afterwards, and what was done
set_cookie_dev(cap, raises, left) ==
    IF raises THEN [cap |-> cap, call |-> [NoCookieCall EXCEPT !.raised = TRUE, !.log = <<"next">>]]
    ELSE LET c == [name |-> cap.name, value |-> cap.value, path |-> cap.path,
                   domain |-> "", max_age |-> cap.max_age, http_only |-> cap.http_only,
                   secure |-> cap.secure, same_site |-> cap.same_site]
         IN [cap |-> [f \in DOMAIN cap |->
                        IF f \in CkStrings /\ f \notin left THEN "" ELSE cap[f]],
             call |-> [raised |-> FALSE, log |-> <<"next", "set">>,
                       header |-> build_set_cookie_value(c)]]

NoCookieMw(cfg) == [cfg |-> cfg, cap |-> cfg, calls |-> 0, last |-> NoCookieCall]

CookieIdle == ck = NoCookieMw(DefaultCookieConfig)

\* one request through the middleware
SetCookieCall ==
    /\ ck.calls < MaxCkCalls
    /\ \E raises \in BOOLEAN, left \in SUBSET CkStrings :
         LET r == set_cookie_dev(ck.cap, raises, left) IN
         ck' = [ck EXCEPT !.cap = r.cap, !.calls = @ + 1, !.last = r.call]
    /\ UNCHANGED notCookie

S4Idle == PeriodicIdle /\ RetryIdle /\ SharedIdle /\ CacheIdle /\ SessionIdle /\ CookieIdle

OldLaterIdle == RunsIdle /\ RefIdle /\ RecIdle /\ GuardIdle /\ CrIdle
LaterIdle == OldLaterIdle /\ S4Idle
\* everything of the older sections at rest
TbIdleButS4 == BucketIdle /\ ConcIdle /\ LimiterIdle /\ SvcIdle /\ CtxIdle /\ NormIdle /\ OldLaterIdle
CoreIdle == SvcIdle /\ CtxIdle /\ NormIdle /\ LaterIdle
TbIdle == BucketIdle /\ ConcIdle /\ LimiterIdle /\ CoreIdle

(***************************************************************************)
(* Specifications                                                          *)
(***************************************************************************)
PipelineIdle == middlewares_ = <<>> /\ hooks_ = EmptyHooks

\* The pipeline: construction, use / set_hooks, then one run
Init == NextIdle /\ PipelineIdle /\ RunIdle /\ TbIdle

Next ==
    \/ use
    \/ SetPlainHooks
    \/ SetMergedHooks
    \/ \E fh \in BOOLEAN : RunStart(fh)
    \/ BeginStep
    \/ HookReturn
    \/ HookThrow
    \/ MwInvoke
    \/ MwReturn
    \/ MwThrow
    \/ FinalReturn
    \/ FinalThrow
    \/ MwCatch
    \/ MwPropagate
    \/ StepDone
    \/ RunReturn
    \/ RunCatch
    \/ RunRethrow

Spec == Init /\ [][Next]_vars

\* A Next wrapping a counter-incrementing callable (or default-constructed),
\* invoked any number of times
InitNext ==
    /\ nxt \in {NewNext(TRUE), NewNext(FALSE)} /\ x = 0 /\ calls = <<>>
    /\ PipelineIdle /\ RunIdle /\ TbIdle

NextNext == NextOp \/ NextTryCall

SpecNext == InitNext /\ [][NextNext]_vars

\* merge_hooks of any list of Hooks, one of whose callbacks is then called
InitMerge ==
    /\ NextIdle /\ RunIdle /\ TbIdle
    /\ middlewares_ = <<>>
    /\ hooks_ \in {merge_hooks(ListOf(f)) : f \in HookLists}

NextMerge ==
    \/ \E slot \in Slots : MergeCall(slot)
    \/ HookReturn
    \/ HookThrow
    \/ MergeReturn

SpecMerge == InitMerge /\ [][NextMerge]_vars

\* A pipeline without middleware on which hooks are set, dev observability is
\* enabled, and one run is made
NextDev ==
    \/ SetPlainHooks
    \/ SetMergedHooks
    \/ \E o \in BOOLEAN, v \in EnvValues : enable_dev_observability(o, v)
    \/ \E fh \in BOOLEAN : RunStart(fh)
    \/ BeginStep
    \/ HookReturn
    \/ HookThrow
    \/ FinalReturn
    \/ FinalThrow
    \/ StepDone
    \/ RunReturn
    \/ RunCatch
    \/ RunRethrow

SpecDev == Init /\ [][NextDev]_vars

\* One TokenBucket, constructed with any arguments or default-constructed,
\* called sequentially while the clock advances
InitBucket ==
    /\ NextIdle /\ PipelineIdle /\ RunIdle /\ ConcIdle /\ LimiterIdle /\ CoreIdle
    /\ now = 0 /\ nticks = 0 /\ nops = 0
    /\ last = NoCall /\ ones = [calls |-> 0, only |-> TRUE]
    /\ bucket \in {NewBucket(c, r, 0) : c \in Capacities, r \in Rates} \cup {DefaultBucket}

NextBucket == Tick \/ TryConsume \/ RetryAfterMs

SpecBucket == InitBucket /\ [][NextBucket]_vars

\* One TokenBucket shared by MaxThreads threads
InitConc ==
    /\ NextIdle /\ PipelineIdle /\ RunIdle /\ ConcIdle /\ LimiterIdle /\ CoreIdle
    /\ bucket \in {NewBucket(c, r, 0) : c \in ConcCapacities, r \in ConcRates}
    /\ now = 0 /\ nticks = 0 /\ nops = 0
    /\ last = NoCall /\ ones = [calls |-> 0, only |-> TRUE]
NextConc ==
    \/ ConcTick
    \/ \E t \in Threads :
         \/ ConcTryConsume(t)
         \/ ConcRetryAfterMs(t)
         \/ Lock(t)
         \/ Refill(t)
         \/ Check(t)
         \/ Deduct(t)
         \/ Estimate(t)
         \/ Unlock(t)
         \/ Return(t)
SpecConc == InitConc /\ [][NextConc]_vars

\* One RateLimiterState and one rate_limit middleware, with requests handled
\* by MaxReqThreads threads at once
InitLimiter ==
    /\ NextIdle /\ PipelineIdle /\ RunIdle /\ BucketIdle /\ ConcIdle /\ CoreIdle
    /\ opt \in LimOpts
    /\ st = [mu |-> 0, buckets |-> [k \in Keys |-> 0]]
    /\ heap = <<>>
    /\ rq = [t \in ReqThreads |-> NoRequest]
    /\ nreq = 0
    /\ nrun = [k \in Keys |-> 0]
    /\ lastRun = NoRun
NextLimiter ==
    \/ LimTick
    \/ \E t \in ReqThreads :
         \/ ReqStart(t)
         \/ ReqLock(t)
         \/ ReqFind(t)
         \/ ReqMake(t)
         \/ ReqEmplace(t)
         \/ ReqUnlock(t)
         \/ ReqConsume(t)
         \/ ReqRetry(t)
         \/ ReqReject(t)
         \/ ReqNext(t)
         \/ ReqDone(t)
SpecLimiter == InitLimiter /\ [][NextLimiter]_vars

\* The same pipeline, run for one request after the other
NextRate ==
    \/ LimTick
    \/ \E key \in Keys : RateRun(key)
SpecRate == InitLimiter /\ [][NextRate]_vars

\* One Services registry on which provide and get are called in any order
NextServices == Provide \/ Get
SpecServices == Init /\ [][NextServices]_vars

\* A run whose middleware store typed state in the request
NextState ==
    \/ use
    \/ \E fh \in BOOLEAN : RunStart(fh)
    \/ BeginStep
    \/ MwInvoke
    \/ MwReturn
    \/ FinalReturn
    \/ StepDone
    \/ RunReturn
    \/ CtxSetState
    \/ CtxEmplaceState
SpecState == Init /\ [][NextState]_vars

\* A run whose middleware report errors with send_error, on a pipeline with
\* the test's hooks
NextErr ==
    \/ use
    \/ SetTestHooks
    \/ \E fh \in BOOLEAN : RunStart(fh)
    \/ BeginStep
    \/ HookReturn
    \/ MwInvoke
    \/ MwReturn
    \/ MwThrow
    \/ FinalReturn
    \/ FinalThrow
    \/ MwCatch
    \/ MwPropagate
    \/ StepDone
    \/ RunReturn
    \/ RunCatch
    \/ RunRethrow
    \/ CtxSendError
SpecErr == Init /\ [][NextErr]_vars

\* The pipeline run again and again, each run by a caller that may change
\* the pipeline between two runs
NextRuns ==
    \/ use
    \/ SetTestHooks
    \/ \E fh \in BOOLEAN : RunStart(fh)
    \/ BeginStep
    \/ HookReturn
    \/ MwInvoke
    \/ MwReturn
    \/ MwThrow
    \/ FinalReturn
    \/ FinalThrow
    \/ MwCatch
    \/ MwPropagate
    \/ StepDone
    \/ RunReturn
    \/ RunCatch
    \/ RunRethrow
    \/ RunAgain
SpecRuns == Init /\ [][NextRuns]_vars

\* A pipeline with recovery() among its middleware, and one run of it
NextRecovery ==
    \/ use
    \/ UseRecovery
    \/ ProvideLogger
    \/ SetTestHooks
    \/ \E fh \in BOOLEAN : RunStart(fh)
    \/ BeginStep
    \/ HookReturn
    \/ UserInvoke
    \/ UserReturn
    \/ UserThrow
    \/ FinalReturn
    \/ FinalThrow
    \/ UserCatch
    \/ UserPropagate
    \/ RecNext
    \/ RecReturn
    \/ RecCatch
    \/ StepDone
    \/ RunReturn
    \/ RunCatch
    \/ RunRethrow
SpecRecovery == Init /\ [][NextRecovery]_vars

\* one guard middleware called for one request
InitGuard ==
    /\ NextIdle /\ PipelineIdle /\ RunIdle /\ BucketIdle /\ ConcIdle /\ LimiterIdle
    /\ SvcIdle /\ CtxIdle /\ NormIdle /\ RunsIdle /\ RefIdle /\ RecIdle /\ CrIdle /\ S4Idle
    /\ gd \in GuardInputs
NextGuard == IpFilterCall \/ CsrfCall \/ BodyLimitCall \/ RateLimitCall
SpecGuard == InitGuard /\ [][NextGuard]_vars

\* One pipeline, run by two threads at once
NextCr ==
    \/ CUse
    \/ \E r \in Runs :
         \/ CRunStart(r)
         \/ CSetState(r)
         \/ CInvoke(r)
         \/ CReturn(r)
         \/ CThrow(r)
         \/ CCatch(r)
         \/ CPropagate(r)
         \/ CRunEnd(r)
SpecCr == Init /\ [][NextCr]_vars

NextPeriodic ==
    \/ \E t \in PtThreads :
         \/ start(t) \/ start_store(t) \/ start_launch(t) \/ start_assign(t)
         \/ stop(t) \/ stop_store(t) \/ stop_joinable(t) \/ stop_join(t)
    \/ \E w \in DOMAIN workers : run_loop_check(w) \/ run_loop_post(w)

SpecPeriodic == Init /\ [][NextPeriodic]_vars

\* a bucket in any state its class allows, asked how long to wait
InitRetry ==
    /\ NextIdle /\ PipelineIdle /\ RunIdle /\ TbIdleButS4 /\ PeriodicIdle /\ SharedIdle /\ CacheIdle /\ SessionIdle /\ CookieIdle
    /\ \E b \in RefillBuckets : b.tokens_ <= b.capacity_ /\ rw = NoRetry(b)
NextRetry == RetryAsk \/ RetryWait \/ RetryTry
SpecRetry == InitRetry /\ [][NextRetry]_vars

\* two rate_limit middleware of any capacities, each with or without a
\* RateLimiterState in its Services
InitShared ==
    /\ NextIdle /\ PipelineIdle /\ RunIdle /\ TbIdleButS4 /\ PeriodicIdle /\ RetryIdle /\ CacheIdle /\ SessionIdle /\ CookieIdle
    /\ \E o \in [Limiters -> ShOpts], svc \in [Limiters -> BOOLEAN] : sh = NoShared(o, svc)
NextShared == \E i \in Limiters, key \in Keys : SharedRun(i, key)
SpecShared == InitShared /\ [][NextShared]_vars

\* one http_cache middleware: of any options with a Cache, of the default
\* ones without
InitCache ==
    /\ NextIdle /\ PipelineIdle /\ RunIdle /\ TbIdleButS4
    /\ PeriodicIdle /\ RetryIdle /\ SharedIdle /\ SessionIdle /\ CookieIdle
    /\ \E o \in HcOptions, has_cache \in BOOLEAN, atTtl \in BOOLEAN :
         /\ ~has_cache => o = DefaultHcOptions
         /\ hc = NoHttpCache(o, has_cache, atTtl)
NextCache == HttpCacheCall \/ HcTick
SpecCache == InitCache /\ [][NextCache]_vars

\* one session middleware, with an empty store
InitSession ==
    /\ NextIdle /\ PipelineIdle /\ RunIdle /\ TbIdleButS4
    /\ PeriodicIdle /\ RetryIdle /\ SharedIdle /\ CacheIdle /\ CookieIdle
    /\ \E o \in SessionOptionsTried : ss = NoSessions(o)
NextSession == SessionCall
SpecSession == InitSession /\ [][NextSession]_vars

\* one set_cookie_dev middleware, of any arguments
InitCookie ==
    /\ NextIdle /\ PipelineIdle /\ RunIdle /\ TbIdleButS4
    /\ PeriodicIdle /\ RetryIdle /\ SharedIdle /\ CacheIdle /\ SessionIdle
    /\ \E cfg \in CookieConfigs : ck = NoCookieMw(cfg)
NextCookie == SetCookieCall
SpecCookie == InitCookie /\ [][NextCookie]_vars

\* normalize applied to one Error
InitNormalize ==
    /\ NextIdle /\ PipelineIdle /\ RunIdle /\ BucketIdle /\ ConcIdle /\ LimiterIdle
    /\ SvcIdle /\ CtxIdle /\ LaterIdle
    /\ errIn \in NormInputs /\ errOut = NotNormalized
NextNormalize == Normalize
SpecNormalize == InitNormalize /\ [][NextNormalize]_vars

\* refill_locked_ applied to one bucket, several times
InitRefill ==
    /\ NextIdle /\ PipelineIdle /\ RunIdle /\ BucketIdle /\ ConcIdle /\ LimiterIdle
    /\ SvcIdle /\ CtxIdle /\ NormIdle /\ RunsIdle /\ RecIdle /\ GuardIdle /\ CrIdle /\ S4Idle
    /\ \E b \in RefillBuckets : b.tokens_ <= b.capacity_ /\ rf = NoRefill(b)
NextRefill == RefillCall
SpecRefill == InitRefill /\ [][NextRefill]_vars

(***************************************************************************)
(* C1: for a Next wrapping a callable, after k >= 1 invocations (operator() *)
(* or try_call(), in any mix) the callable has run exactly once; try_call() *)
(* returns true on the first invocation and false on every later one;      *)
(* called() is false before the first invocation and true after it; every  *)
(* invocation, redundant or not, returns.                                  *)
(***************************************************************************)
C1_ExactlyOnce ==
    nxt.fn =>
        /\ calls = <<>> => (~called(nxt) /\ x = 0)
        /\ calls # <<>> => (called(nxt) /\ x = 1)
        /\ \A i \in DOMAIN calls :
             calls[i].how = "try" =>
                 calls[i].ret = (IF i = 1 THEN "true" ELSE "false")

C1_Witness ==
    /\ nxt.fn /\ Len(calls) >= 4
    /\ calls[1].how = "op" /\ calls[2].how = "try"
    /\ calls[3].how = "op" /\ calls[4].how = "try"

(***************************************************************************)
(* C2: in a run every registered middleware is invoked at most once and    *)
(* the final handler at most once, however often a middleware invokes the  *)
(* continuation it was given, also after the first invocation raised.      *)
(***************************************************************************)
C2_AtMostOnce ==
    /\ \A i \in Registered : Count(<<"mw", i>>) <= 1
    /\ Count(<<"final", 0>>) <= 1

\* middleware 1 invoked next(), caught the failure it raised, and invoked it again
C2_Witness ==
    /\ n = 2 /\ Occurs(<<"final", 0>>)
    /\ \E i, j \in DOMAIN trace :
         /\ i < j
         /\ trace[i] = <<"catch", 1>>
         /\ trace[j] = <<"next", 1>>
    /\ pc = "done"

(***************************************************************************)
(* C3: when every middleware invokes its continuation once and returns,    *)
(* the run executes pre(m1) .. pre(mn), the final handler once, then       *)
(* post(mn) .. post(m1), in that order.                                    *)
(***************************************************************************)
IsPrePost(ev) == ev[1] \in InvocationEvents \/ (ev[1] = "ret" /\ ev[2] > 0)
OnionOrder ==
    [k \in 1..(2 * n + 1) |->
        IF k <= n THEN <<"mw", k>>
        ELSE IF k = n + 1 THEN <<"final", 0>>
        ELSE <<"ret", 2 * n + 2 - k>>]
EveryMwCallsNextOnce ==
    \A i \in Registered : Count(<<"next", i>>) = 1 /\ Count(<<"ret", i>>) = 1

C3_OnionOrder ==
    (pc = "done" /\ outcome = Returned /\ final_handler /\ EveryMwCallsNextOnce)
        => SelectSeq(trace, IsPrePost) = OnionOrder

C3_Witness ==
    /\ pc = "done" /\ outcome = Returned /\ final_handler /\ EveryMwCallsNextOnce
    /\ n = 2
    /\ Occurs(<<"ret", 0>>)

(***************************************************************************)
(* C4: if middleware i returns without ever invoking its continuation, no  *)
(* middleware with a greater index and not the final handler is invoked.   *)
(***************************************************************************)
C4_ShortCircuit ==
    \A i \in Registered :
        (Occurs(<<"ret", i>>) /\ ~Occurs(<<"next", i>>))
            => /\ \A j \in Registered : j > i => ~Occurs(<<"mw", j>>)
               /\ ~Occurs(<<"final", 0>>)

\* middleware 1 returned without next(), with a second middleware and a
\* final handler waiting; the run is over
C4_Witness ==
    /\ n = 2 /\ final_handler
    /\ Occurs(<<"ret", 1>>) /\ ~Occurs(<<"next", 1>>)
    /\ pc = "done"

(***************************************************************************)
(* C5: a run in which no failure escapes (also a short-circuited run, also *)
(* a run without final handler) calls hooks_.on_end exactly once, after    *)
(* all middleware and final-handler code of the run has finished, and      *)
(* returns normally. An absent on_end is a no-op.                          *)
(***************************************************************************)
FireEnd == <<"hooks_.on_end", 0>>
FireBegin == <<"hooks_.on_begin", 0>>
FireError == <<"hooks_.on_error", 0>>

C5_EndOnce ==
    (pc = "done" /\ outcome = Returned) =>
        /\ exc = NoExc /\ stack = <<>> /\ ~Occurs(FireError)
        /\ Count(FireEnd) = (IF Present(hooks_.on_end) THEN 1 ELSE 0)
        /\ \A i, j \in DOMAIN trace :
             (trace[i][1] \in ChainEvents /\ trace[j][1] \in {"hooks_.on_end", "on_end"})
                 => i < j

\* a short-circuited run (middleware 1 never invoked next) that fired on_end
C5_Witness ==
    /\ pc = "done" /\ outcome = Returned
    /\ n = 2 /\ Occurs(<<"ret", 1>>) /\ ~Occurs(<<"next", 1>>)
    /\ Occurs(FireEnd) /\ Occurs(<<"on_end", 1>>)

(***************************************************************************)
(* C6: in every run hooks_.on_begin is called exactly once, and the call   *)
(* is over before any middleware or the final handler is invoked. An       *)
(* absent on_begin is a no-op.                                             *)
(***************************************************************************)
C6_BeginOnceFirst ==
    pc # "idle" =>
        /\ Count(FireBegin) = (IF Present(hooks_.on_begin) THEN 1 ELSE 0)
        /\ Present(hooks_.on_begin) => trace[1] = FireBegin
        /\ \A i, j \in DOMAIN trace :
             (trace[i][1] \in {"hooks_.on_begin", "on_begin"} /\ trace[j][1] \in ChainEvents)
                 => i < j

C6_Witness ==
    /\ pc = "done" /\ Occurs(FireBegin) /\ Occurs(<<"on_begin", 2>>)
    /\ Occurs(<<"mw", 1>>) /\ Occurs(<<"final", 0>>)

(***************************************************************************)
(* C7: when a failure escapes the middleware chain or the final handler,   *)
(* hooks_.on_error is called exactly once in that run, with an Error of    *)
(* status 500 and code "unhandled_exception" whose details carry the       *)
(* failure's message when it has one. An absent on_error is a no-op.       *)
(***************************************************************************)
EscapedChain == pc \in {"error", "done"} /\ exc.by[1] \in {"mw", "final"}

C7_ErrorOnce ==
    EscapedChain =>
        /\ Count(FireError) = (IF Present(hooks_.on_error) THEN 1 ELSE 0)
        /\ Present(hooks_.on_error) =>
             /\ errArg.status = 500
             /\ errArg.code = "unhandled_exception"
             /\ errArg.message # ""
             /\ exc.kind = "std" => errArg.details = {<<"what", exc.what>>}
             /\ exc.kind = "other" => errArg.details = {}

C7_Witness ==
    /\ pc = "done" /\ exc = StdExc("boom", <<"final", 0>>)
    /\ n = 1 /\ Occurs(<<"unwind", 1>>)
    /\ Occurs(FireError) /\ Occurs(<<"on_error", 1>>)
    /\ errArg.details = {<<"what", "boom">>}

(***************************************************************************)
(* C8: in no run are both hooks_.on_end and hooks_.on_error called.        *)
(***************************************************************************)
C8_EndErrorExclusive == ~(Occurs(FireEnd) /\ Occurs(FireError))

(***************************************************************************)
(* C9: whenever a failure escapes the stepping phase, run ends by raising  *)
(* that same failure to its caller, with or without an on_error hook.      *)
(***************************************************************************)
C9_ReraisesOriginal ==
    (pc = "done" /\ exc.by[1] \in {"mw", "final"}) => outcome = Raised(exc)

(***************************************************************************)
(* C10: for any list h1..hn of Hooks, the on_begin of merge_hooks calls    *)
(* the present on_begin callbacks in the order h1..hn, its on_end and      *)
(* on_error call the present callbacks of their kind in the order hn..h1,  *)
(* and a call that returns has called every present callback exactly once. *)
(***************************************************************************)
MergedList == hooks_.on_begin.list
\* the slot whose merged callback was called, and the user callbacks run so far
CalledSlot ==
    CHOOSE slot \in Slots : trace[1] = <<FireName(slot), 0>>
UserCalls == Tail(trace)

PresentIn(slot) == {i \in 1..Len(MergedList) : Present(MergedList[i][slot])}
\* i is visited before j by the merged callback of slot
Earlier(slot, i, j) == IF slot = "on_begin" THEN i < j ELSE i > j

C10_MergeOrder ==
    pc \in {"merged", "done"} =>
        LET slot == CalledSlot IN
        /\ \A k \in DOMAIN UserCalls :
             /\ UserCalls[k][1] = slot
             /\ UserCalls[k][2] \in PresentIn(slot)
             \* every present callback due before this one ran before it
             /\ \A i \in PresentIn(slot) :
                  Earlier(slot, i, UserCalls[k][2])
                      => \E l \in 1..(k - 1) : UserCalls[l][2] = i
             \* and none ran twice
             /\ \A l \in DOMAIN UserCalls : l # k => UserCalls[l] # UserCalls[k]
        /\ (pc = "done" /\ outcome = Returned)
              => {UserCalls[k][2] : k \in DOMAIN UserCalls} = PresentIn(slot)

\* merge_hooks(h1, h2, h3-or-fewer) whose on_end ran h2 then h1 and returned
C10_Witness ==
    /\ pc = "done" /\ outcome = Returned
    /\ Len(MergedList) = 2
    /\ trace = <<FireEnd, <<"on_end", 2>>, <<"on_end", 1>>>>
    /\ Present(MergedList[1].on_begin) /\ ~Present(MergedList[2].on_error)

(***************************************************************************)
(* C11: when enable_dev_observability takes effect on a pipeline that has  *)
(* hooks H installed, on_begin runs H first and then tracing, metrics,     *)
(* debug-trace; on_end and on_error run debug-trace, metrics, tracing and  *)
(* H last (H itself front to back on begin, back to front on teardown).    *)
(***************************************************************************)
\* the Hooks values (by name) that have a callback in hooks_[slot]
IdsIn(slot) == {Calls(hooks_[slot])[k].id : k \in DOMAIN Calls(hooks_[slot])}
\* the callbacks of H in slot
HPresent(slot) == IdsIn(slot) \ {3, 4, 5}
\* dev observability has been enabled on a pipeline that had hooks H
DevOverH == HasDev(hooks_) /\ \E slot \in Slots : HPresent(slot) # {}
\* the user callbacks of slot run so far in this run
SlotCalls(slot) == SelectSeq(trace, LAMBDA ev : ev[1] = slot)
\* the call of hooks_[slot] made by run has returned
SlotReturned(slot) ==
    CASE slot = "on_begin" -> Occurs(FireBegin)
                              /\ (pc \in {"stepping", "end", "catch", "error"}
                                  \/ (pc = "done" /\ outcome.exc.by[1] # "on_begin"))
      [] slot = "on_end"   -> Occurs(FireEnd) /\ pc = "done" /\ outcome = Returned
      [] slot = "on_error" -> Occurs(FireError) /\ pc = "done" /\ outcome = Raised(exc)

C11_DevMergeOrder ==
    (DevOverH /\ pc # "idle") =>
        \A slot \in Slots :
            LET due == HPresent(slot) \cup {3, 4, 5}
                ran == SlotCalls(slot)
            IN  /\ \A k \in DOMAIN ran :
                     /\ ran[k][2] \in due
                     /\ \A i \in due :
                          Earlier(slot, i, ran[k][2])
                              => \E l \in 1..(k - 1) : ran[l][2] = i
                     /\ \A l \in DOMAIN ran : l # k => ran[l] # ran[k]
                /\ SlotReturned(slot) => {ran[k][2] : k \in DOMAIN ran} = due

\* H = merge_hooks(a, b): begin ran a, b, tracing, metrics, debug-trace and the
\* teardown after a failing final handler ran them back to front
C11_Witness ==
    /\ DevOverH /\ pc = "done"
    /\ SlotCalls("on_begin") =
         <<<<"on_begin", 1>>, <<"on_begin", 2>>, <<"on_begin", 3>>,
           <<"on_begin", 4>>, <<"on_begin", 5>>>>
    /\ SlotCalls("on_error") =
         <<<<"on_error", 5>>, <<"on_error", 4>>, <<"on_error", 3>>,
           <<"on_error", 2>>, <<"on_error", 1>>>>
    /\ outcome = Raised(exc)

(***************************************************************************)
(* C12: in every reachable state of a TokenBucket, under any sequence of   *)
(* try_consume and retry_after_ms calls and any advance of the clock,      *)
(* 0 <= tokens <= capacity.                                                *)
(***************************************************************************)
C12_TokensInRange == 0 <= tokens(bucket) /\ tokens(bucket) <= bucket.capacity_

\* the time elapsed before the last call, and what it would add unclamped
LastElapsed == last.at - last.pre.last_ms_
LastUnclamped == last.pre.tokens_ + LastElapsed * last.pre.refill_per_sec_

\* a refill that had to be clamped, on a bucket that had been drawn from
C12_Witness ==
    /\ last.op # "none"
    /\ last.pre.tokens_ < bucket.capacity_
    /\ LastElapsed > 0 /\ LastUnclamped > bucket.capacity_

(***************************************************************************)
(* C13: for a bucket with capacity C and refill_per_sec = 0, whatever time *)
(* passes between the calls, exactly the first floor(C) calls of           *)
(* try_consume(1) return true and every later one returns false.           *)
(***************************************************************************)
FloorCapacity == bucket.capacity_ \div One

C13_FirstFloorC ==
    (bucket.refill_per_sec_ = 0 /\ ones.only
        /\ last.op = "try_consume" /\ last.arg = One)
    => (last.ok <=> ones.calls <= FloorCapacity)

\* capacity 2.5: the third try_consume(1) failed, the clock having advanced
C13_Witness ==
    /\ bucket.refill_per_sec_ = 0 /\ ones.only
    /\ last.op = "try_consume" /\ last.arg = One
    /\ bucket.capacity_ = 2 * One + 500
    /\ ones.calls = 3 /\ ~last.ok /\ nticks >= 1

(***************************************************************************)
(* C14: try_consume(n) with n > 0 first refills and then either returns    *)
(* true and reduces tokens by exactly n (tokens >= n) or returns false and *)
(* leaves the tokens as they were after the refill (tokens < n).           *)
(***************************************************************************)
\* tokens after the refill the last call had to make
LastRefilled ==
    IF LastElapsed <= 0 THEN last.pre.tokens_
    ELSE IF LastUnclamped <= last.pre.capacity_ THEN LastUnclamped
    ELSE last.pre.capacity_

C14_ConsumeOrLeave ==
    (last.op = "try_consume" /\ last.arg > 0) =>
        /\ LastRefilled >= last.arg => (last.ok /\ tokens(bucket) = LastRefilled - last.arg)
        /\ LastRefilled < last.arg => (~last.ok /\ tokens(bucket) = LastRefilled)

\* both outcomes after a refill that added something: granted thanks to the
\* refill, or refused in spite of it
C14_Witness ==
    /\ last.op = "try_consume" /\ last.arg = 2 * One
    /\ last.pre.tokens_ < LastRefilled
    /\ ~last.ok /\ tokens(bucket) = LastRefilled /\ LastRefilled >= One

(***************************************************************************)
(* C15: try_consume(n) with n <= 0 returns true and changes neither the    *)
(* token count nor the last-refill timestamp, in every bucket state.       *)
(***************************************************************************)
C15_NoOpConsume ==
    (last.op = "try_consume" /\ last.arg <= 0) =>
        /\ last.ok
        /\ tokens(bucket) = last.pre.tokens_
        /\ bucket.last_ms_ = last.pre.last_ms_

\* a negative n on an empty bucket whose refill is overdue
C15_Witness ==
    /\ last.op = "try_consume" /\ last.arg < 0
    /\ tokens(bucket) = 0 /\ bucket.capacity_ > 0
    /\ bucket.refill_per_sec_ > 0 /\ last.at > bucket.last_ms_

(***************************************************************************)
(* C16: retry_after_ms(need) returns 0 whenever, after the refill,         *)
(* tokens >= need (for every refill rate, including 0), and a value >= 1   *)
(* whenever tokens < need.                                                 *)
(***************************************************************************)
C16_ZeroIffEnough ==
    last.op = "retry_after_ms" =>
        /\ tokens(bucket) >= last.arg => last.ms = 0
        /\ tokens(bucket) < last.arg => last.ms >= 1

(***************************************************************************)
(* C17: when refill_per_sec > 0 and, after the refill, tokens < need,      *)
(* retry_after_ms(need) is max(1, ceil((need - tokens) / refill_per_sec *  *)
(* 1000)) milliseconds.                                                    *)
(***************************************************************************)
\* ceil(a / b) for a >= 0, b > 0
CeilDiv(a, b) == (a + b - 1) \div b

C17_RetryIsCeil ==
    (last.op = "retry_after_ms" /\ bucket.refill_per_sec_ > 0
        /\ tokens(bucket) < last.arg)
    => last.ms = Max(1, CeilDiv(last.arg - tokens(bucket), bucket.refill_per_sec_))

(***************************************************************************)
(* C18: when several threads call try_consume and retry_after_ms on one    *)
(* TokenBucket, the calls take effect as if made one at a time: the refill *)
(* and the deduction of a call never interleave with another call, no      *)
(* token is consumed twice, and the total granted never exceeds the        *)
(* initial tokens plus the amount refilled.                                *)
(***************************************************************************)
\* what the call of thread t does when made alone on the bucket it found
Alone(t) ==
    IF th[t].op = "try_consume"
    THEN LET r == try_consume(th[t].pre, th[t].arg, th[t].at) IN
         [b |-> r.b, ok |-> r.ret, ms |-> 0]
    ELSE LET r == retry_after_ms(th[t].pre, th[t].arg, th[t].at) IN
         [b |-> r.b, ok |-> FALSE, ms |-> r.ret]

C18_OneAtATime ==
    /\ \A t, u \in Threads : (Locked(t) /\ Locked(u)) => t = u
    /\ \A t \in Threads :
         th[t].pc = "unlock" =>
             /\ bucket = Alone(t).b
             /\ th[t].ok = Alone(t).ok
             /\ th[t].ms = Alone(t).ms
    /\ tokens(bucket) = bucket.capacity_ + refilled - consumed
    /\ tokens(bucket) >= 0
    /\ consumed <= bucket.capacity_ + refilled

\* two threads are after the last token: one is about to take it, the other
\* waits for mu_
C18_Witness ==
    \E t, u \in Threads :
        /\ th[t].pc = "deduct" /\ tokens(bucket) = th[t].arg
        /\ th[u].pc = "lock" /\ th[u].op = "try_consume" /\ th[u].arg = th[t].arg

(***************************************************************************)
(* C19: within one RateLimiterState at most one TokenBucket is ever        *)
(* created per key, also when the first requests for the key arrive at the *)
(* same time; every request for the key consumes from that bucket; a       *)
(* bucket is never removed from the map or replaced.                       *)
(***************************************************************************)
BucketsOf(key) == {i \in DOMAIN heap : heap[i].key = key}
\* thread t is past the map lock and works on the bucket it was given
UsesBucket(t) == rq[t].pc \in {"consume", "retry", "reject", "next"}

C19_OneBucketPerKey ==
    /\ \A key \in Keys : Cardinality(BucketsOf(key)) <= 1
    /\ \A t \in ReqThreads :
         UsesBucket(t) => /\ rq[t].bucket_ptr # 0
                          /\ rq[t].bucket_ptr = st.buckets[rq[t].key]
                          /\ heap[rq[t].bucket_ptr].key = rq[t].key
    \* a bucket once constructed is in the map, or about to be put there
    /\ \A i \in DOMAIN heap :
         \/ st.buckets[heap[i].key] = i
         \/ \E t \in ReqThreads : rq[t].pc = "emplace" /\ rq[t].ptr = i

\* two first requests for one key at once: one is creating the bucket, the
\* other waits for the map lock
C19_Witness ==
    \E t, u \in ReqThreads :
        /\ rq[t].pc = "emplace" /\ st.buckets[rq[t].key] = 0
        /\ rq[u].pc = "lock" /\ rq[u].key = rq[t].key

(***************************************************************************)
(* C20: for a pipeline with rate_limit (capacity C, refill_per_sec 0) and  *)
(* a RateLimiterState provided through Services, over successive runs with *)
(* one client key exactly the first C runs reach the final handler; every  *)
(* later run is answered with status 429, code "rate_limited" and a        *)
(* Retry-After header, and its continuation is not invoked.                *)
(***************************************************************************)
C20_FirstCRuns ==
    (opt.refill_per_sec = 0 /\ lastRun.i >= 1) =>
        IF lastRun.i <= opt.capacity \div One
        THEN lastRun.res.final
        ELSE /\ ~lastRun.res.final /\ ~lastRun.res.next
             /\ lastRun.res.status = 429
             /\ lastRun.res.code = "rate_limited"
             /\ lastRun.res.retry_after >= 0

\* capacity 2: the third run for the key, made after the clock advanced and
\* after a run for another key, was rejected
C20_Witness ==
    /\ opt.refill_per_sec = 0 /\ opt.capacity = 2 * One
    /\ lastRun.i = 3 /\ lastRun.res.status = 429 /\ nticks >= 1
    /\ \E k \in Keys : k # lastRun.key /\ nrun[k] >= 1

(***************************************************************************)
(* C21: Services is a map from type to instance: after any sequence of     *)
(* provide calls get<T>() returns the instance provided last for T, or an  *)
(* empty result (no failure, no newly made default) when T was never       *)
(* provided, and has<T>() is true exactly when get<T>() is non-empty.      *)
(***************************************************************************)
RECURSIVE LatestIn(_, _)
\* the instance given by the last provide for T in the calls h, 0 if none
LatestIn(h, T) ==
    IF h = <<>> THEN 0
    ELSE IF h[Len(h)][1] = T THEN h[Len(h)][2]
    ELSE LatestIn(SubSeq(h, 1, Len(h) - 1), T)

C21_LastProvideWins ==
    /\ \A T \in SvcTypes :
         /\ get(services_, T).ret = LatestIn(provided, T)
         /\ get(services_, T).s = services_
         /\ has(services_, T) <=> get(services_, T).ret # 0
    /\ lastGet # NoGet =>
         lastGet.ret = LatestIn(SubSeq(provided, 1, lastGet.seen), lastGet.type)

\* a type provided twice, with different instances, and another never
\* provided and asked for
C21_Witness ==
    /\ \E T \in SvcTypes :
         /\ Len(SelectSeq(provided, LAMBDA c : c[1] = T)) >= 2
         /\ provided[1][1] = T /\ provided[1][2] # services_[T]
    /\ lastGet # NoGet /\ lastGet.ret = 0
    /\ LatestIn(provided, lastGet.type) = 0

(***************************************************************************)
(* C22: the per-request typed state is a map keyed by type with at most    *)
(* one value per type: after any sequence of set_state / emplace_state     *)
(* calls during a run, try_state<T> yields the value stored last for T,    *)
(* also when read by a later middleware or the final handler, and          *)
(* try_state<T> is null and has_state<T> false when nothing was stored.    *)
(***************************************************************************)
C22_LastStoreWins ==
    \A T \in StateTypes :
        /\ try_state(reqState, T) = LatestIn(stored, T)
        /\ has_state(reqState, T) <=> LatestIn(stored, T) # 0

\* the final handler runs after middleware 1 stored a value for a type, a
\* later call replaced it, and nothing was stored for the other type
C22_Witness ==
    /\ pc = "stepping" /\ stack # <<>> /\ Top.kind = "final"
    /\ Len(stored) = 2 /\ stored[1][1] = stored[2][1] /\ stored[1][2] # stored[2][2]
    /\ Occurs(<<"mw", 1>>)
    /\ \E T \in StateTypes : ~has_state(reqState, T)

(***************************************************************************)
(* C23: normalize(e) returns an Error whose status is e.status when        *)
(* 100 <= e.status <= 599 and 500 otherwise, whose code and message are    *)
(* e's when non-empty and fixed non-empty defaults otherwise, and whose    *)
(* details are e's.                                                        *)
(***************************************************************************)
C23_Normalize ==
    errOut.done =>
        /\ errOut.e.status = IF 100 <= errIn.status /\ errIn.status <= 599
                             THEN errIn.status ELSE 500
        /\ errOut.e.code # "" /\ errOut.e.message # ""
        /\ errOut.e.code = IF errIn.code # "" THEN errIn.code ELSE "error"
        /\ errOut.e.message = IF errIn.message # "" THEN errIn.message ELSE "Error"
        /\ errOut.e.details = errIn.details

\* a status just above the range, no code, a message and details
C23_Witness ==
    /\ errOut.done /\ errIn.status = 600 /\ errIn.code = "" /\ errIn.message # ""
    /\ errIn.details # {} /\ errOut.e.status = 500

(***************************************************************************)
(* C24: every Error that leaves the system, written to the response by     *)
(* Context.send_error or delivered to an on_error hook, has a status in    *)
(* 100..599 and a non-empty code and message, however it was built.        *)
(***************************************************************************)
ValidError(e) == 100 <= e.status /\ e.status <= 599 /\ e.code # "" /\ e.message # ""

C24_EveryErrorValid ==
    /\ sent # NoSent => ValidError(sent.json)
    /\ Occurs(FireError) => ValidError(errArg)

(***************************************************************************)
(* C24, amended: every Error that run delivers to an on_error hook, and    *)
(* every Error that went through normalize before it was handed to         *)
(* Context.send_error, has a status in 100..599 and a non-empty code and   *)
(* message; send_error writes the Error it is given as it is.              *)
(***************************************************************************)
C24_NormalizedValid ==
    /\ (sent # NoSent /\ sent.normalized) =>
           (ValidError(sent.json) /\ sent.status = sent.json.status)
    /\ Occurs(FireError) => ValidError(errArg)

\* a middleware sent a normalized Error that had been built with status 999
\* and no code, and a failure of the same run reached on_error
C24_Witness ==
    /\ sent.normalized /\ sent.status = 500 /\ sent.json.code = "error"
    /\ Occurs(FireError) /\ errArg.code = "unhandled_exception"

(***************************************************************************)
(* C29: send_error does not by itself stop the chain: after a middleware   *)
(* has called send_error, the next middleware (or the final handler) runs  *)
(* if and only if that middleware also invokes its continuation.           *)
(***************************************************************************)
\* what runs after the middleware at position i, if anything does
HasDownstream(i) == i < n \/ final_handler
Downstream(i) == IF i < n THEN <<"mw", middlewares_[i + 1]>> ELSE <<"final", 0>>

C29_SendErrorGoesOn ==
    (sent # NoSent /\ HasDownstream(sent.by)) =>
        (Occurs(Downstream(sent.by)) <=> Occurs(<<"next", sent.by>>))

\* middleware 1 called send_error and then next(): the chain went on, and
\* the run returned
C29_Witness ==
    /\ sent # NoSent /\ sent.by = 1 /\ sent.inv = 0 /\ HasDownstream(1)
    /\ Occurs(<<"next", 1>>) /\ Occurs(Downstream(1))
    /\ pc = "done" /\ outcome = Returned

(***************************************************************************)
(* C25: run does not modify the pipeline: the middleware list, the hooks   *)
(* and the services registry are the same after a run as before it, from   *)
(* the call of run to the moment its caller has control again; and every   *)
(* run, the first as well as a later one on the same pipeline, starts at   *)
(* the first registered middleware: whatever it invokes of the chain, it   *)
(* invokes middlewares_[1] first (the final handler first when no          *)
(* middleware is registered).                                              *)
(***************************************************************************)
RunKeepsPipeline ==
    (pc # "idle" \/ pc' # "idle") =>
        /\ middlewares_' = middlewares_
        /\ hooks_' = hooks_
        /\ services_' = services_
FirstInvoked ==
    LET inv == SelectSeq(trace, LAMBDA ev : ev[1] \in InvocationEvents)
    IN  inv # <<>> => inv[1] = IF n = 0 THEN <<"final", 0>> ELSE <<"mw", middlewares_[1]>>
C25_RunKeepsPipeline == [][RunKeepsPipeline]_vars /\ [](pc # "idle" => FirstInvoked)

\* a second run on a pipeline of two middleware, which the first run walked
\* to its end, has invoked the first middleware again
C25_Witness ==
    /\ runsDone = 1 /\ pc = "done" /\ outcome = Returned
    /\ n = 2
    /\ Occurs(<<"mw", 1>>) /\ Occurs(<<"mw", 2>>)

(***************************************************************************)
(* C28: each refill sets tokens to min(capacity, tokens + elapsed seconds  *)
(* times refill_per_sec) for the time elapsed since the last refill and    *)
(* sets the last-refill timestamp to the current time; when no time has    *)
(* elapsed, or the clock reads earlier than the timestamp, tokens and      *)
(* timestamp are left as they were. So over any sequence of refills the    *)
(* timestamp never decreases, and the tokens credited never exceed what    *)
(* the rate gives for the span the timestamp has covered (no interval is   *)
(* credited twice).                                                        *)
(***************************************************************************)
C28_Refill ==
    rf.count > 0 =>
        LET elapsed == rf.at - rf.pre.last_ms_ IN
        /\ rf.b.capacity_ = rf.pre.capacity_
        /\ rf.b.refill_per_sec_ = rf.pre.refill_per_sec_
        /\ IF elapsed > 0
           THEN /\ rf.b.tokens_ = Min(rf.pre.capacity_,
                                      rf.pre.tokens_ + elapsed * rf.pre.refill_per_sec_)
                /\ rf.b.last_ms_ = rf.at
           ELSE /\ rf.b.tokens_ = rf.pre.tokens_
                /\ rf.b.last_ms_ = rf.pre.last_ms_
        /\ rf.b.last_ms_ >= rf.pre.last_ms_
        /\ rf.b.last_ms_ >= rf.b0.last_ms_
        /\ rf.b.tokens_ - rf.b0.tokens_
              <= (rf.b.last_ms_ - rf.b0.last_ms_) * rf.b0.refill_per_sec_

\* a first refill that credited tokens without filling the bucket, then a
\* second one whose clock reading is earlier than the timestamp the first left
C28_Witness ==
    /\ rf.count = 2
    /\ rf.at < rf.pre.last_ms_ /\ rf.pre.last_ms_ > rf.b0.last_ms_
    /\ rf.pre.tokens_ > rf.b0.tokens_ /\ rf.pre.tokens_ < rf.pre.capacity_

(***************************************************************************)
(* C26: with recovery() installed upstream of the middleware or final      *)
(* handler that raise, and the failure reaching it (nothing between them   *)
(* catches it, and nothing else raises: no middleware upstream of          *)
(* recovery, no logger), the failure is caught by recovery: when run is    *)
(* over a 500 error response has been written by recovery, run has         *)
(* returned normally, on_end was called and on_error was not.              *)
(***************************************************************************)
By(what) == {trace[i][2] : i \in {j \in DOMAIN trace : trace[j][1] = what}}
DownstreamOfRecovery(k) == k = 0 \/ k > recovery_.id
RaisedBelowRecovery ==
    /\ recovery_.id # 0
    /\ By("throw") # {}
    /\ \A k \in By("throw") : DownstreamOfRecovery(k)
    /\ By("catch") \subseteq {recovery_.id}
GuardPassed(o) == o.next = 1 /\ o.sent = <<>>
GuardRejected(o) == o.next = 0 /\ Len(o.sent) = 1 /\ o.sent[1].status \in 400..499
InvokedBy(r) == SelectSeq(cr[r].trace, LAMBDA ev : ev[1] \in InvocationEvents)
OwnOrder(r) ==
    /\ Len(InvokedBy(r)) <= n + 1
    /\ \A i \in DOMAIN InvokedBy(r) :
         InvokedBy(r)[i] = IF i <= n THEN <<"mw", middlewares_[i]>> ELSE <<"final", 0>>
OwnProgress(r) ==
    \A j \in DOMAIN cr[r].trace :
        (cr[r].trace[j][1] \in InvocationEvents /\ j > 1) =>
            /\ cr[r].trace[j - 1][1] = "next"
            /\ cr[r].trace[j] \in {<<"mw", cr[r].trace[j - 1][2] + 1>>, <<"final", 0>>}
OwnPosition(r) ==
    cr[r].idx = Cardinality({j \in DOMAIN cr[r].trace : cr[r].trace[j][1] = "mw"})
OwnFailure(r) ==
    cr[r].failing => \E j \in DOMAIN cr[r].trace : cr[r].trace[j][1] = "throw"
OwnContext(r) == cr[r].state \in {0, r}
C27_RunsIndependent ==
    \A r \in Runs :
        OwnOrder(r) /\ OwnProgress(r) /\ OwnPosition(r) /\ OwnFailure(r) /\ OwnContext(r)

\* the first call has ended by a failure of the first middleware while the
\* second, in progress, has walked the two middleware to the final handler
C27_Witness ==
    /\ n = 2
    /\ cr[1].outcome = "raised" /\ cr[1].idx = 1
    /\ cr[2].pc = "stepping" /\ cr[2].idx = 2 /\ Len(cr[2].stack) = 3
    /\ cr[2].state = 2

(***************************************************************************)
(* C32: when a callback of on_begin raises, run is over at once: the       *)
(* failure is what run raises to its caller, no middleware and no final    *)
(* handler has been invoked, and neither on_end nor on_error has been      *)
(* called.                                                                 *)
(***************************************************************************)
BeginRaised ==
    /\ trace # <<>>
    /\ trace[Len(trace)][1] = "on_begin"
    /\ \/ outcome.kind = "raised" /\ outcome.exc.by = trace[Len(trace)]
       \/ exc.by = trace[Len(trace)]
C32_BeginFailureLeavesRun ==
    BeginRaised =>
        /\ pc = "done" /\ outcome.kind = "raised"
        /\ outcome.exc.by[1] = "on_begin"
        /\ \A i \in DOMAIN trace : trace[i][1] \notin ChainEvents
        /\ ~Occurs(FireEnd) /\ ~Occurs(FireError)
        /\ errArg = DefaultError

\* the second callback of a merged on_begin raised, on a pipeline with a
\* middleware, a final handler and the other hooks set
C32_Witness ==
    /\ BeginRaised
    /\ n >= 1 /\ final_handler
    /\ Present(hooks_.on_end) /\ Present(hooks_.on_error)
    /\ Len(trace) = 3

(***************************************************************************)
(* C36: under any interleaving of start() and stop() calls made from       *)
(* different threads, at most one worker thread exists at a time, and      *)
(* whenever no start() / stop() call is in progress and is_running() is    *)
(* false, no worker thread is alive.                                       *)
(***************************************************************************)
C36_OneWorker ==
    ~pstat.terminated =>
        /\ Cardinality(Alive) <= 1
        /\ (InStart \cup InStop = {} /\ ~is_running) => Alive = {}

(***************************************************************************)
(* C37: after a stop() that no start() ran concurrently with has returned, *)
(* and until the next start(), the worker loop has terminated, no further  *)
(* job is posted, and thread_ is free for the next start() to launch a     *)
(* fresh worker.                                                           *)
(***************************************************************************)
C37_StopEndsWorker ==
    (pstat.quiet /\ ~pstat.terminated) =>
        /\ Alive = {}
        /\ pstat.posts = pstat.postsAtStop
        /\ thread_ = 0

(***************************************************************************)
(* C33: for a bucket with refill_per_sec > 0 and need <= capacity, when    *)
(* retry_after_ms(need) returns w and the clock then advances by w         *)
(* milliseconds with no other consumption, the next try_consume(need)      *)
(* succeeds.                                                               *)
(***************************************************************************)
C33_WaitIsEnough ==
    (rw.stage = "tried" /\ rw.b.refill_per_sec_ > 0 /\ rw.need <= rw.b.capacity_)
        => rw.ok

(***************************************************************************)
(* C34: every 429 response produced by rate_limit carries a Retry-After of *)
(* at least 1 second, also when the clock advances or other requests hit   *)
(* the bucket between the failed try_consume and the retry_after_ms call.  *)
(***************************************************************************)
C34_RetryAfterPositive ==
    \A t \in ReqThreads :
        (rq[t].pc = "done" /\ rq[t].res.status = 429) => rq[t].res.retry_after >= 1

(***************************************************************************)
(* C35: a rate_limit configured with capacity C and refill_per_sec 0 never *)
(* lets more than C requests for one key through, also when it shares its  *)
(* RateLimiterState (the provided one or the process-wide fallback) with   *)
(* another rate_limit of a different capacity.                             *)
(***************************************************************************)
C35_AtMostCapacity ==
    \A i \in Limiters, key \in Keys :
        sh.opts[i].refill_per_sec = 0 => sh.through[i][key] * One <= sh.opts[i].capacity

(***************************************************************************)
(* C31: for http_cache with a cache installed, a GET that misses invokes   *)
(* the continuation exactly once and, when the resulting status is 200,    *)
(* stores the response, so that an identical later GET within the TTL is   *)
(* served from the cache with the stored status and body and without the   *)
(* continuation being invoked.                                             *)
(***************************************************************************)
\* the last request was looked up in the Cache
LookedUp == hc.has_cache /\ hc.last.req.method = "GET" /\ ~has_bypass(hc.last.req, hc.opt)

\* the last request missed and its continuation answered 200
Missed200 == hc.last.lookup = "miss" /\ ~hc.last.raised /\ hc.last.res.status = 200

\* the response of the last request is in the Cache, stamped with its time
StoredLast ==
    hc.store[hc.last.key] = [has |-> TRUE, status |-> hc.last.res.status,
                             body |-> hc.last.res.body, created_at_ms |-> hc.last.t0]

\* the last request is served from what an earlier GET that missed left
ServedFrom(m) ==
    /\ hc.last.lookup = "hit" /\ hc.last.next_calls = 0
    /\ hc.last.res.status = m.status /\ hc.last.res.body = m.body

\* an identical GET missed and got 200 less than the TTL before the last request
WithinTtl(m) == m.has /\ hc.last.t0 - m.created_at_ms < HcTtl

C31_MissStoresEvery200 ==
    LookedUp =>
        /\ hc.last.lookup = "miss" => hc.last.next_calls = 1
        /\ Missed200 => StoredLast
        /\ WithinTtl(hc.last.memo) => ServedFrom(hc.last.memo)

(***************************************************************************)
(* C31, amended: as above, where the response is stored when the status is *)
(* 200 and, if require_body is set, the body is not empty; the later GET   *)
(* is served from the cache when the earlier one was stored.               *)
(***************************************************************************)
Storable == hc.opt.require_body => hc.last.res.body # ""

C31_MissStores200 ==
    LookedUp =>
        /\ hc.last.lookup = "miss" => hc.last.next_calls = 1
        /\ (Missed200 /\ Storable) => StoredLast
        /\ (WithinTtl(hc.last.memo) /\ (hc.opt.require_body => hc.last.memo.body # ""))
              => ServedFrom(hc.last.memo)

C31_Witness ==
    /\ LookedUp /\ hc.calls >= 2
    /\ WithinTtl(hc.last.memo) /\ ServedFrom(hc.last.memo)
    /\ hc.last.memo.body = "one" /\ hc.last.t0 > hc.last.memo.created_at_ms

(***************************************************************************)
(* C38: a session loaded from the store on a later request (valid signed   *)
(* cookie) is not treated as new: the handler does not see is_new, no      *)
(* cookie is issued (that happens only in the request that created the     *)
(* session), and a loaded session the handler left unmodified is not       *)
(* saved again.                                                            *)
(***************************************************************************)
C38_LoadedIsNotNew ==
    ss.last.loaded =>
        /\ ~ss.last.seen.is_new
        /\ ss.last.set_cookie # "issued"
        /\ ss.last.use = "nothing" => ~ss.last.saved

(***************************************************************************)
(* C39: the middleware returned by set_cookie_dev sets the same configured *)
(* cookie (name, value, path, same-site) on every request it handles,      *)
(* after the downstream chain has run, not only on the first request.      *)
(***************************************************************************)
C39_SameCookieEveryTime ==
    (ck.calls >= 1 /\ ~ck.last.raised) =>
        /\ ck.last.log = <<"next", "set">>
        /\ ck.last.header = build_set_cookie_value(
               [name |-> ck.cfg.name, value |-> ck.cfg.value, path |-> ck.cfg.path,
                domain |-> "", max_age |-> ck.cfg.max_age, http_only |-> ck.cfg.http_only,
                secure |-> ck.cfg.secure, same_site |-> ck.cfg.same_site])

====
